---- MODULE Spec2Model ----
(***************************************************************************)
(* A model of the yabs release-workflow tool: the task runner              *)
(* (yabs/task_runner.py), the task contract (yabs/cmd_common.py,           *)
(* yabs/task/common.py), the tasks bump, build, tag, commit, push and exec *)
(* (yabs/task/*.py), and the version file manager with its safe file       *)
(* writer (yabs/version_manager.py).                                       *)
(*                                                                         *)
(* Python values are modelled as tagged records [ty, v]: `ty` is the       *)
(* Python type name that isinstance() looks at, `v` a rendering of the     *)
(* value.  A dict (a task definition, an option map) is a function from    *)
(* its keys to such values.                                                *)
(***************************************************************************)
EXTENDS Integers, Sequences, FiniteSets, TLC

VARIABLES
    \* ---- task runner (TaskRunner, TaskContext) ----
    tasks,      \* TaskRunner.tasks: the loaded workflow, a sequence of task definitions
    args,       \* TaskRunner.args: the CLI arguments namespace
    config,     \* TaskRunner.config: the `config` section of the workflow file
    pc,         \* position of the program: "loaded", "checked", "running", "done", "raised"
    idx,        \* index (1-based) of the next task definition of the loop of run()
    ok,         \* local `ok` of TaskRunner.run
    ret,        \* return value of TaskRunner.run ("none" until it returns)
    exc,        \* the exception that left the program, [type, errors]
    context,    \* TaskContext: version, org_version, tag_name, artifacts (the tags of
                \* the built files), errors, inc, dry_run
    hist,       \* one entry per task run by run(): [idx, returned, res, cont,
                \* checks, cmds, uploaded, task_str]
    warnings,   \* log_warning() calls of WorkflowTask.__init__ (unknown options)
    \* ---- version manager and the world the tasks act on ----
    vm,         \* VersionFileManager: master_version, org_version, parsers
    files,      \* the version source files: [content, mtime] per parser
    files0,     \* the version source files as they were when the workflow was loaded
    git,        \* the git repository: [tags, commits, pushes]
    \* ---- SafeFileWriter / TextFileParser.write ----
    fs,         \* the three paths of one version source: [target, tmp, bak]
    wpc,        \* position inside TextFileParser.write / SafeFileWriter
    wpos,       \* number of source lines already copied to the temp file
    wnew,       \* the version being written (parser.version)
    wpre,       \* content of the target when the current write began
    wexc,       \* where the current write failed ("none" when it has not)
    writes,     \* number of writes begun so far
    \* ---- direct calls of the VersionFileManager API (as the tests make them) ----
    call,       \* the last call: its arguments, the manager before it, what it returned
    calls,      \* number of calls made so far
    \* ---- run_process_streamed (yabs/util.py) ----
    stream,     \* its locals, its two threads, the subprocess and the clock
    \* ---- TaskRunner._load ----
    doc,        \* what yaml.safe_load returns for the workflow file
    \* ---- PluginManager (yabs/plugin_manager.py) ----
    entry_points,   \* the installed entry points of the group yabs.tasks
    pm          \* the class attributes of PluginManager, and its calls

runnerVars == <<tasks, args, config, pc, idx, ok, ret, exc, context, hist, warnings,
                vm, files, files0, git>>
writerVars == <<fs, wpc, wpos, wnew, wpre, wexc, writes>>
callVars == <<call, calls>>
streamVars == <<stream>>
loadVars == <<doc>>
pluginVars == <<entry_points, pm>>
vars == <<runnerVars, writerVars, callVars, streamVars, loadVars, pluginVars>>

-----------------------------------------------------------------------------
(* Bounds of the model.                                                    *)

\* Longest workflow (number of task definitions) that is explored.
MaxTasks == 3
\* Number of writes of one version source that are explored.
MaxWrites == 2
\* Number of version sources (the master and its secondaries).
NumSources == 2
\* Number of direct calls of the VersionFileManager API that are explored.
MaxCalls == 2

-----------------------------------------------------------------------------
(* Python values.                                                          *)

S(s) == [ty |-> "str", v |-> s]
B(b) == [ty |-> "bool", v |-> IF b THEN "True" ELSE "False"]
I(n) == [ty |-> "int", v |-> ToString(n)]
\* ", ".join(items)
RECURSIVE join(_)
join(items) ==
    IF items = <<>> THEN ""
    ELSE IF Len(items) = 1 THEN items[1]
    ELSE (items[1] \o ", ") \o join(Tail(items))

\* A list of strings: its items, and v as their rendering.
L(items) == [ty |-> "list", v |-> ("[" \o join(items)) \o "]", items |-> items]
D(s) == [ty |-> "dict", v |-> s]

\* set(list): the items of a list, as a set.
set_of(list) == {list.items[i] : i \in 1..Len(list.items)}
NoneV == [ty |-> "NoneType", v |-> "None"]

\* isinstance(x, types); bool is a subclass of int.
isinstance(x, types) ==
    \/ x.ty \in types
    \/ (x.ty = "bool" /\ "int" \in types)

\* bool(x): the truth value of a Python value.
truthy(x) ==
    CASE x.ty = "NoneType" -> FALSE
      [] x.ty = "bool" -> x.v = "True"
      [] x.ty = "int" -> x.v # "0"
      [] x.ty = "str" -> x.v # ""
      [] x.ty = "list" -> x.v # "[]"
      [] x.ty = "dict" -> x.v # "{}"
      [] OTHER -> TRUE

\* d.get(key): None when the key is absent.
get(d, key) == IF key \in DOMAIN d THEN d[key] ELSE NoneV

\* check_arg(argument, allowed_types, condition, or_none): the exception it
\* raises, "none" when the argument passes.
check_arg(argument, allowed_types, condition, or_none) ==
    IF or_none /\ argument.ty = "NoneType" THEN "none"
    ELSE IF ~isinstance(argument, allowed_types) THEN "TypeError"
    ELSE IF ~condition THEN "ValueError"
    ELSE "none"

\* The first exception of a sequence of checks ("none" when all pass).
RECURSIVE first_error(_)
first_error(checks) ==
    IF checks = <<>> THEN "none"
    ELSE IF Head(checks) # "none" THEN Head(checks)
    ELSE first_error(Tail(checks))

-----------------------------------------------------------------------------
(* Versions (semantic_version.Version as used by version_manager.py).      *)
(* A version is [major, minor, patch, prerelease]; prerelease is the tuple *)
(* of prerelease identifiers.  An identifier is kept in the three groups   *)
(* that the pattern of _inc_prerelease reads from it (letters, digits, any *)
(* remainder): [prefix, number, rest].                                     *)

Ident(prefix, number) == [prefix |-> prefix, number |-> number, rest |-> ""]
V(major, minor, patch) ==
    [major |-> major, minor |-> minor, patch |-> patch, prerelease |-> <<>>]
VPre(major, minor, patch, pre) ==
    [major |-> major, minor |-> minor, patch |-> patch, prerelease |-> pre]

\* What an operator returns in place of a version when the code raises.
NoVersion == VPre(0 - 1, 0 - 1, 0 - 1, <<>>)

ident_str(id) == id.prefix \o ToString(id.number) \o id.rest

RECURSIVE join_idents(_)
join_idents(ids) ==
    IF ids = <<>> THEN ""
    ELSE IF Len(ids) = 1 THEN ident_str(ids[1])
    ELSE ident_str(ids[1]) \o "." \o join_idents(Tail(ids))

\* str(version), as "{version}" renders it in a template.
version_str(v) ==
    ToString(v.major) \o "." \o ToString(v.minor) \o "." \o ToString(v.patch)
    \o (IF v.prerelease = <<>> THEN "" ELSE "-" \o join_idents(v.prerelease))

copy_version(v, prerelease) == VPre(v.major, v.minor, v.patch, prerelease)

next_major(v) ==
    IF v.prerelease # <<>> /\ v.minor = 0 /\ v.patch = 0
    THEN V(v.major, 0, 0)
    ELSE V(v.major + 1, 0, 0)

next_minor(v) ==
    IF v.prerelease # <<>> /\ v.patch = 0
    THEN V(v.major, v.minor, 0)
    ELSE V(v.major, v.minor + 1, 0)

next_patch_skips_prerelease(v) == V(v.major, v.minor, v.patch + 2)

next_patch(v) ==
    IF v.prerelease # <<>>
    THEN V(v.major, v.minor, v.patch)
    ELSE V(v.major, v.minor, v.patch + 1)

_inc_prerelease_keeps_prefix(v, prefix) ==
    IF Len(v.prerelease) = 0
    THEN copy_version(v, <<Ident(prefix, 0)>>)
    ELSE copy_version(v, <<Ident(v.prerelease[1].prefix, v.prerelease[1].number + 1)>>)

_inc_prerelease(v, prefix) ==
    IF Len(v.prerelease) = 0
    THEN copy_version(v, <<Ident(prefix, 0)>>)
    ELSE copy_version(v, <<Ident(prefix, v.prerelease[1].number + 1)>>)

INCREMENTS == {"major", "minor", "patch", "prerelease", "postrelease"}

v_next_patch_is_minor(v, inc, prerelease_prefix) ==
    CASE inc = "major" -> next_major(v)
      [] inc = "minor" -> next_minor(v)
      [] inc = "patch" -> next_minor(v)
      [] inc = "prerelease" ->
            IF v.prerelease = <<>> THEN NoVersion
            ELSE _inc_prerelease(v, prerelease_prefix)
      [] inc = "postrelease" ->
            IF v.prerelease # <<>> THEN _inc_prerelease(v, prerelease_prefix)
            ELSE _inc_prerelease(next_patch(v), prerelease_prefix)
      [] OTHER -> NoVersion

v_next_prerelease_unchecked(v, inc, prerelease_prefix) ==
    CASE inc = "major" -> next_major(v)
      [] inc = "minor" -> next_minor(v)
      [] inc = "patch" -> next_patch(v)
      [] inc = "prerelease" -> _inc_prerelease(v, prerelease_prefix)
      [] inc = "postrelease" ->
            IF v.prerelease # <<>> THEN _inc_prerelease(v, prerelease_prefix)
            ELSE _inc_prerelease(next_patch(v), prerelease_prefix)
      [] OTHER -> NoVersion

\* The v_next that VersionFileManager.bump computes from master_version;
\* NoVersion when it raises RuntimeError ('prerelease' would go backwards).
v_next(v, inc, prerelease_prefix) ==
    CASE inc = "major" -> next_major(v)
      [] inc = "minor" -> next_minor(v)
      [] inc = "patch" -> next_patch(v)
      [] inc = "prerelease" ->
            IF v.prerelease = <<>> THEN NoVersion
            ELSE _inc_prerelease(v, prerelease_prefix)
      [] inc = "postrelease" ->
            IF v.prerelease # <<>> THEN _inc_prerelease(v, prerelease_prefix)
            ELSE _inc_prerelease(next_patch(v), prerelease_prefix)
      [] OTHER -> NoVersion

-----------------------------------------------------------------------------
(* VersionFileManager and its parsers.  vm = [master_version, org_version, *)
(* parsers]; parsers[i] = [cls, version]; files[i] = [content, mtime] is   *)
(* the file of parsers[i]: the version its text holds and the number of    *)
(* times it was written.                                                   *)

\* Parser classes whose write() raises NotImplementedError.
ReadOnlyParsers == {"SetupCfgFileParser", "PyprojectTomlParser"}

\* The index of the first parser whose set_version raises (Len + 1: none).
first_failing_parser(parsers, write) ==
    LET bad == {i \in 1..Len(parsers) : write /\ parsers[i].cls \in ReadOnlyParsers}
    IN  IF bad = {} THEN Len(parsers) + 1
        ELSE CHOOSE i \in bad : \A j \in bad : i <= j

\* VersionFileManager.set_version(semver, write), which calls
\* VersionFileParser.set_version and (write) TextFileParser.write per parser.
\* Returns the manager, the files and the exception raised.
set_version(vm_, files_, semver, write) ==
    LET stop == first_failing_parser(vm_.parsers, write)
    IN  [vm |-> [vm_ EXCEPT
                    !.master_version = semver,
                    !.parsers = [i \in 1..Len(vm_.parsers) |->
                        IF i <= stop
                        THEN [vm_.parsers[i] EXCEPT !.version = semver]
                        ELSE vm_.parsers[i]]],
         files |-> [i \in 1..Len(files_) |->
                        IF write /\ i < stop
                        THEN [content |-> semver, mtime |-> files_[i].mtime + 1]
                        ELSE files_[i]],
         exc |-> IF stop <= Len(vm_.parsers) THEN "NotImplementedError" ELSE "none"]

reset_version_keeps_bump(vm_, files_, write) ==
    [vm |-> vm_, files |-> files_, exc |-> "none"]

\* VersionFileManager.reset_version(write).
reset_version(vm_, files_, write) ==
    IF vm_.master_version # vm_.org_version
    THEN set_version(vm_, files_, vm_.org_version, write)
    ELSE [vm |-> vm_, files |-> files_, exc |-> "none"]

calc_only_ignored(calc_only) == FALSE

\* VersionFileManager.bump, `if calc_only: return v_next`.
returns_early(calc_only) == calc_only

\* VersionFileManager.bump(inc, write, prerelease_prefix, calc_only):
\* [vm, files, exc, ret]; ret is the version returned (NoVersion when the
\* call raises).
bump(vm_, files_, inc, write, prerelease_prefix, calc_only) ==
    LET nxt == v_next(vm_.master_version, inc, prerelease_prefix)
    IN  IF inc \notin INCREMENTS
        THEN [vm |-> vm_, files |-> files_, exc |-> "ValueError", ret |-> NoVersion]
        ELSE IF nxt = NoVersion
        THEN [vm |-> vm_, files |-> files_, exc |-> "RuntimeError", ret |-> NoVersion]
        ELSE IF returns_early(calc_only)
        THEN [vm |-> vm_, files |-> files_, exc |-> "none", ret |-> nxt]
        ELSE LET r == set_version(vm_, files_, nxt, write)
             IN  [vm |-> r.vm, files |-> r.files, exc |-> r.exc,
                  ret |-> IF r.exc = "none" THEN nxt ELSE NoVersion]

-----------------------------------------------------------------------------
(* Task results (yabs/task/common.py) and the task registry.               *)

OkTaskResult == [ty |-> "OkTaskResult", v |-> "ok"]
SkipTaskResult == [ty |-> "SkipTaskResult", v |-> "skip"]
WarningTaskResult == [ty |-> "WarningTaskResult", v |-> "warning"]
ErrorTaskResult == [ty |-> "ErrorTaskResult", v |-> "error"]

\* Every value the run method of a task may return.
RunResults == {B(TRUE), B(FALSE), OkTaskResult, SkipTaskResult,
               WarningTaskResult, ErrorTaskResult}

\* _TaskResult.__init__: the status a returned value stands for
\* (True is "ok", False is "error").
status_of(res) ==
    IF res.ty = "bool"
    THEN (IF res.v = "True" THEN "ok" ELSE "error")
    ELSE res.v

\* TaskRunner.handler_map.
handler_map == {"bump", "check", "commit", "exec", "github_release", "push",
                "pypi_release", "tag"}

\* The task kinds that plugins registered (PluginManager.register_plugins).
PluginKinds == {"plugin_task"}

\* The task class of yabs/task/ that neither map lists (WingetReleaseTask).
NewerKinds == {"winget_release"}

\* The registry the runner dispatches on: handler_map as
\* PluginManager.task_class_map extends it (build, and the plugins' kinds).
task_class_map == (handler_map \cup {"build"} \cup PluginKinds) \cup NewerKinds

NoOpts == [k \in {} |-> NoneV]

\* WorkflowTask.KNOWN_TARGETS.
KNOWN_TARGETS == {"sdist", "bdist_wheel", "bdist_msi"}

\* PypiReleaseTask.KNOWN_PYPI_TARGETS.
KNOWN_PYPI_TARGETS == {"sdist", "bdist_wheel"}

\* DEFAULT_OPTS of each task class.
DEFAULT_OPTS(kind) ==
    CASE kind = "bump" ->
            ("inc" :> NoneV) @@ ("check" :> B(TRUE))
            @@ ("prerelease_prefix" :> S("a")) @@ ("prerelease_start_idx" :> I(1))
      [] kind = "build" ->
            ("clean" :> B(TRUE)) @@ ("revert_bump_on_error" :> B(TRUE))
            @@ ("targets" :> L(<<"sdist", "bdist_wheel">>))
      [] kind = "tag" ->
            ("name" :> S("v{version}")) @@ ("message" :> S("Version {version}"))
      [] kind = "commit" ->
            ("add" :> L(<<>>)) @@ ("add_known" :> B(TRUE))
            @@ ("message" :> S("Bump version to {version}"))
      [] kind = "push" ->
            ("target" :> S("")) @@ ("tags" :> B(FALSE))
      [] kind = "check" ->
            ("build" :> B(TRUE)) @@ ("can_push" :> B(TRUE)) @@ ("clean" :> B(TRUE))
            @@ ("github" :> B(TRUE)) @@ ("os" :> NoneV) @@ ("pypi" :> B(TRUE))
            @@ ("python" :> NoneV) @@ ("up_to_date" :> B(TRUE))
            @@ ("venv" :> B(TRUE)) @@ ("version" :> B(TRUE))
            @@ ("winget" :> NoneV) @@ ("yabs" :> NoneV)
      [] kind = "exec" ->
            ("args" :> L(<<>>)) @@ ("add_artifacts" :> NoneV)
            @@ ("always" :> B(FALSE)) @@ ("dry_run_args" :> NoneV)
            @@ ("ignore_errors" :> B(FALSE)) @@ ("log_start" :> B(TRUE))
            @@ ("silent" :> B(FALSE)) @@ ("stream" :> NoneV)
            @@ ("timeout" :> NoneV)
      [] kind = "github_release" ->
            ("gh_auth" :> NoneV) @@ ("draft" :> B(FALSE))
            @@ ("message" :> S("Released {version}")) @@ ("name" :> S("v{version}"))
            @@ ("prerelease" :> NoneV) @@ ("repo" :> NoneV) @@ ("tag" :> NoneV)
            @@ ("target_commitish" :> NoneV) @@ ("upload" :> NoneV)
      [] kind = "pypi_release" ->
            ("upload" :> NoneV) @@ ("comment" :> NoneV)
      [] kind = "winget_release" ->
            ("gh_auth" :> NoneV) @@ ("out" :> S("dist"))
            @@ ("package_id" :> NoneV) @@ ("upload" :> NoneV)
      [] OTHER -> NoOpts

COMMON_OPTS == {"dry_run", "verbose"}

\* WorkflowTask.__init__ (cmd_common.py): the option keys it warns about.
unknown_opts(kind, opts) ==
    (DOMAIN opts) \ ((DOMAIN DEFAULT_OPTS(kind)) \cup COMMON_OPTS)

\* MANDATORY_OPTS of each task class (yabs/task/*.py).
MANDATORY_OPTS(kind) ==
    CASE kind = "exec" -> {"args"}
      [] kind = "winget_release" -> {"package_id", "upload"}
      [] OTHER -> {}

\* sorted(keys) for the option keys that can be missing.
sorted_keys(keys) ==
    SelectSeq(<<"args", "package_id", "task", "upload">>, LAMBDA k : k \in keys)

\* check_dict_keys(d, known, mandatory, prefix): the messages it returns,
\* one for the mandatory keys that `d` lacks and one for the keys of `d`
\* that are not known.
check_dict_keys(d, known, mandatory, prefix) ==
    LET used == DOMAIN d
        missing == mandatory \ used
        invalid == used \ (known \cup mandatory)
    IN  (IF missing # {}
         THEN <<(prefix \o "Missing mandatory option(s): ")
                \o join(sorted_keys(missing))>>
         ELSE <<>>)
        \o (IF invalid # {}
            THEN <<prefix \o "Unsupported option(s)">>
            ELSE <<>>)

\* WorkflowTask._check_default_opts(task_runner, task_def, index).  No
\* caller of it is part of src/yabs/task_runner.py.
_check_default_opts(kind, task_def) ==
    LET mandatory == {"task"} \cup MANDATORY_OPTS(kind)
        known == ((DOMAIN DEFAULT_OPTS(kind)) \cup mandatory) \cup COMMON_OPTS
    IN  check_dict_keys(task_def, known, mandatory, kind \o ": ")

\* WorkflowTask.__init__: self.opts, the defaults updated with the options.
merged_opts(kind, opts) == opts @@ DEFAULT_OPTS(kind)

\* The __init__ of the task class of `kind`, given the options the runner
\* passes: the exception it raises, "none" when the instance is created.
\* An unknown option key raises nothing (it is logged as a warning).
task_init(kind, opts) ==
    LET o == merged_opts(kind, opts)
        base == <<check_arg(get(o, "dry_run"), {"bool"}, TRUE, FALSE),
                  check_arg(get(o, "verbose"), {"int"}, TRUE, FALSE)>>
        own ==
          CASE kind = "bump" ->
                <<check_arg(o["inc"], {"str"}, o["inc"].v \in INCREMENTS, TRUE),
                  check_arg(o["check"], {"bool"}, TRUE, FALSE),
                  check_arg(o["prerelease_prefix"], {"str"}, TRUE, FALSE),
                  check_arg(o["prerelease_start_idx"], {"int"}, TRUE, FALSE)>>
            [] kind = "build" ->
                <<check_arg(o["clean"], {"bool"}, TRUE, FALSE),
                  check_arg(o["revert_bump_on_error"], {"bool"}, TRUE, FALSE),
                  check_arg(o["targets"], {"list"}, TRUE, FALSE),
                  IF o["targets"].ty = "list"
                     /\ ~(set_of(o["targets"]) \subseteq KNOWN_TARGETS)
                  THEN "ConfigError" ELSE "none">>
            [] kind = "tag" ->
                <<check_arg(o["name"], {"str"}, TRUE, FALSE),
                  check_arg(o["message"], {"str"}, TRUE, FALSE)>>
            [] kind = "commit" ->
                <<check_arg(o["add"], {"list", "tuple"}, TRUE, FALSE),
                  check_arg(o["add_known"], {"bool"}, TRUE, FALSE),
                  check_arg(o["message"], {"str"}, TRUE, FALSE)>>
            [] kind = "push" ->
                <<check_arg(o["target"], {"str"}, TRUE, FALSE),
                  check_arg(o["tags"], {"bool"}, TRUE, FALSE)>>
            [] kind = "check" ->
                <<check_arg(o["build"], {"bool"}, TRUE, TRUE),
                  check_arg(o["can_push"], {"bool"}, TRUE, TRUE),
                  check_arg(o["clean"], {"bool"}, TRUE, TRUE),
                  check_arg(o["os"], {"str", "list", "tuple"}, TRUE, TRUE),
                  check_arg(o["pypi"], {"bool"}, TRUE, TRUE),
                  check_arg(o["python"], {"str", "SimpleSpec"}, TRUE, TRUE),
                  check_arg(o["up_to_date"], {"bool"}, TRUE, TRUE),
                  check_arg(o["venv"], {"bool"}, TRUE, TRUE),
                  check_arg(o["winget"], {"bool"}, TRUE, TRUE),
                  check_arg(o["yabs"], {"str", "SimpleSpec"}, TRUE, TRUE)>>
            [] kind = "exec" ->
                <<check_arg(o["args"], {"list", "tuple"}, TRUE, FALSE),
                  check_arg(o["dry_run_args"], {"list", "tuple"}, TRUE, TRUE),
                  check_arg(o["silent"], {"bool"}, TRUE, FALSE),
                  check_arg(o["always"], {"bool"}, TRUE, FALSE),
                  check_arg(o["add_artifacts"], {"dict"}, TRUE, TRUE),
                  check_arg(o["ignore_errors"], {"bool"}, TRUE, FALSE),
                  check_arg(o["log_start"], {"bool"}, TRUE, FALSE),
                  check_arg(o["stream"], {"bool"}, TRUE, TRUE),
                  check_arg(o["timeout"], {"int", "float"}, TRUE, TRUE),
                  IF truthy(o["dry_run_args"]) /\ truthy(o["always"])
                  THEN "RuntimeError" ELSE "none",
                  IF truthy(o["silent"]) /\ truthy(o["stream"])
                  THEN "RuntimeError" ELSE "none">>
            [] kind = "github_release" ->
                <<check_arg(o["draft"], {"bool"}, TRUE, FALSE),
                  check_arg(o["gh_auth"], {"dict", "str"}, TRUE, TRUE),
                  check_arg(o["message"], {"str"}, TRUE, FALSE),
                  check_arg(o["name"], {"str"}, TRUE, FALSE),
                  check_arg(o["prerelease"], {"bool"}, TRUE, TRUE),
                  check_arg(o["repo"], {"str"}, TRUE, TRUE),
                  check_arg(o["tag"], {"str"}, TRUE, TRUE),
                  check_arg(o["target_commitish"], {"str"}, TRUE, TRUE),
                  check_arg(o["upload"], {"list"}, TRUE, TRUE),
                  IF truthy(o["upload"])
                     /\ ~(set_of(o["upload"]) \subseteq KNOWN_TARGETS)
                  THEN "RuntimeError" ELSE "none">>
            [] kind = "pypi_release" ->
                <<check_arg(o["upload"], {"list"}, TRUE, TRUE),
                  IF o["upload"].ty = "list"
                     /\ ~(set_of(o["upload"]) \subseteq KNOWN_PYPI_TARGETS)
                  THEN "ConfigError" ELSE "none">>
            [] kind = "winget_release" ->
                <<check_arg(o["gh_auth"], {"dict", "str"}, TRUE, TRUE),
                  check_arg(o["package_id"], {"str"}, TRUE, FALSE),
                  check_arg(o["upload"], {"str"}, o["upload"].v = "bdist_msi", FALSE),
                  check_arg(o["out"], {"str"}, TRUE, TRUE)>>
            [] OTHER -> <<>>
    IN  first_error(base \o own)

-----------------------------------------------------------------------------
(* check_task_def of each task class: [exc, errors].  exc is the exception *)
(* it raises ("none": it returns), errors the messages it returns (empty   *)
(* for True).                                                              *)

\* Increments in rising order, for the max_increment ceiling; --inc
\* postrelease, which the CLI offers, ranks below patch.
ORDERED_INCREMENTS == <<"postrelease", "patch", "minor", "major">>

index_of(seq, x) == CHOOSE i \in 1..Len(seq) : seq[i] = x

\* BumpTask.check_task_def.
bump_check_task_def(task_def, args_, config_) ==
    LET inc == IF truthy(get(task_def, "inc")) THEN get(task_def, "inc") ELSE args_.inc
        in_order(x) == x.ty = "str" /\ \E i \in 1..Len(ORDERED_INCREMENTS) :
                                          ORDERED_INCREMENTS[i] = x.v
    IN  IF args_.no_bump THEN [exc |-> "none", errors |-> <<>>]
        ELSE IF ~truthy(inc)
        THEN [exc |-> "none",
              errors |-> <<"bump tasks require --inc argument or inc option">>]
        ELSE IF ~in_order(S(config_.max_increment)) \/ ~in_order(inc)
        THEN [exc |-> "ValueError", errors |-> <<>>]
        ELSE IF index_of(ORDERED_INCREMENTS, inc.v)
                > index_of(ORDERED_INCREMENTS, config_.max_increment)
                /\ ~args_.force
        THEN [exc |-> "none",
              errors |-> <<"--inc was passed, but the max_increment option is set to "
                           \o config_.max_increment>>]
        ELSE [exc |-> "none", errors |-> <<>>]

\* ExecTask.check_task_def.  The value of add_artifacts is one of the shapes
\* D("folder_matches"): folder a str, matches a dict of valid patterns;
\* D("bad_regex"): the same with a pattern that does not compile;
\* D("no_folder"): a dict without a str folder; or a value that is no dict.
exec_check_task_def(task_def) ==
    LET arts == get(task_def, "add_artifacts")
    IN  IF ~truthy(arts) THEN [exc |-> "none", errors |-> <<>>]
        ELSE IF arts.ty # "dict" \/ arts.v = "no_folder"
        THEN [exc |-> "ValueError", errors |-> <<>>]
        ELSE IF arts.v = "bad_regex"
        THEN [exc |-> "none",
              errors |-> <<"Invalid regex: add_artifacts.matches.pattern">>]
        ELSE [exc |-> "none", errors |-> <<>>]

check_task_def(kind, task_def, args_, config_) ==
    CASE kind = "bump" -> bump_check_task_def(task_def, args_, config_)
      [] kind = "exec" -> exec_check_task_def(task_def)
      [] OTHER -> [exc |-> "none", errors |-> <<>>]

\* TaskRunner._check_config, the message for a task type that is not in
\* the registry: its text, and the values it is formatted with (the task
\* type and the task definition).
invalid_task_definition(task_type) ==
    [text |-> "Invalid task definition: " \o task_type,
     args |-> <<S(task_type), D("task_def")>>]

\* One iteration of the loop of TaskRunner._check_config: what the task
\* definition adds to `errors`, or the exception that leaves the loop.
check_one(task_def, args_, config_) ==
    LET task_type == task_def["task"].v
    IN  IF task_type \notin task_class_map
        THEN [exc |-> "none",
              errors |-> <<invalid_task_definition(task_type).text>>]
        ELSE check_task_def(task_type, task_def, args_, config_)

\* TaskRunner._check_config: the loop over self.tasks; [exc, errors] is the
\* exception that left the loop and the errors collected until then.
RECURSIVE check_loop(_, _, _, _)
check_loop(defs, args_, config_, errors) ==
    IF defs = <<>> THEN [exc |-> "none", errors |-> errors]
    ELSE LET one == check_one(Head(defs), args_, config_)
         IN  IF one.exc # "none" THEN [exc |-> one.exc, errors |-> errors]
             ELSE check_loop(Tail(defs), args_, config_, errors \o one.errors)

-----------------------------------------------------------------------------
(* The run methods of the tasks.  Each returns the set of its possible     *)
(* outcomes [res, exc, context, vm, files, git]: what git, setup.py or a   *)
(* subprocess answers is not decided by the program.  exc is the exception *)
(* that leaves run ("none": it returns res); cmds are the commands that    *)
(* run issued to git and the requests it made to GitHub, uploaded the tags *)
(* of the artifacts it uploaded, and mutated the option values (lists)     *)
(* that it changed in place.                                               *)

\* Text with its leading "v" kept apart, so that lstrip("vV") can be taken.
Text(lead, body) == [lead |-> lead, body |-> body]
NoText == Text("", "")
text_str(t) == t.lead \o t.body

\* template.format(**vars(context)) for the templates of the workflow.
format(template, ctx) ==
    CASE template = "v{version}" -> Text("v", version_str(ctx.version))
      [] template = "{version}" -> Text("", version_str(ctx.version))
      [] template = "Version {version}" ->
            Text("", "Version " \o version_str(ctx.version))
      [] template = "Bump version to {version}" ->
            Text("", "Bump version to " \o version_str(ctx.version))
      [] OTHER -> Text("", template)

\* CheckTask.run_checks and failed_checks of a task that is no check task.
NoChecks == [run |-> {}, failed |-> {}]

Outcome(res, ctx, vm_, files_, git_) ==
    [res |-> res, exc |-> "none", context |-> ctx, vm |-> vm_, files |-> files_,
     git |-> git_, checks |-> NoChecks, cmds |-> {}, uploaded |-> {},
     mutated |-> NoOpts]
Raised(e, ctx, vm_, files_, git_) ==
    [res |-> NoneV, exc |-> e, context |-> ctx, vm |-> vm_, files |-> files_,
     git |-> git_, checks |-> NoChecks, cmds |-> {}, uploaded |-> {},
     mutated |-> NoOpts]

\* write=... argument that BumpTask.run passes to VersionFileManager.bump.
bump_write_always(dry_run) == TRUE

bump_write(dry_run) == ~dry_run

skips_pre_bump_despite_force(cli_inc, opt_inc, is_pre, is_tagged, force) ==
    /\ cli_inc = S("postrelease")
    /\ ~truthy(opt_inc)
    /\ is_pre
    /\ ~is_tagged

\* BumpTask.run: whether `--inc postrelease` is ignored for this task.
skips_pre_bump(cli_inc, opt_inc, is_pre, is_tagged, force) ==
    /\ cli_inc = S("postrelease")
    /\ ~truthy(opt_inc)
    /\ is_pre
    /\ ~is_tagged
    /\ ~force

\* BumpTask.run.
bump_run(o, ctx, vm_, files_, git_, args_) ==
    LET dry_run == ctx.dry_run \/ args_.no_bump
        inc == IF truthy(o["inc"]) THEN o["inc"] ELSE ctx.inc
        org_version == ctx.org_version
        is_prerelease == org_version.prerelease # <<>>
        is_version_tagged ==
            version_str(org_version) \in {t.body : t \in git_.tags}
    IN  IF ~truthy(inc) THEN {Raised("ConfigError", ctx, vm_, files_, git_)}
        ELSE IF inc.v \notin INCREMENTS
        THEN {Raised("ConfigError", ctx, vm_, files_, git_)}
        ELSE IF skips_pre_bump(args_.inc, o["inc"], is_prerelease, is_version_tagged,
                               args_.force_pre_bump)
        THEN {Outcome(SkipTaskResult, ctx, vm_, files_, git_)}
        ELSE LET b == bump(vm_, files_, inc.v, bump_write(dry_run),
                           o["prerelease_prefix"].v, FALSE)
                 ctx2 == [ctx EXCEPT !.version = b.vm.master_version]
             IN  IF b.exc # "none"
                 THEN {Raised(b.exc, ctx, b.vm, b.files, git_)}
                 ELSE IF truthy(o["check"]) /\ ~dry_run
                 THEN {Outcome(B(TRUE), ctx2, b.vm, b.files, git_),
                       Outcome(B(FALSE), ctx2, b.vm, b.files, git_)}
                 ELSE {Outcome(B(TRUE), ctx2, b.vm, b.files, git_)}

\* context.artifacts.update(fcm.changed_or_added_by_tag): the files with
\* the tags `produced` were created or changed.
with_artifacts(ctx, produced) == [ctx EXCEPT !.artifacts = @ \cup produced]

\* BuildTask.run: _run returns True (every target was built), returns
\* False or raises (any of the targets may have been built before).
build_run(o, ctx, vm_, files_, git_) ==
    LET dry_run == truthy(o["dry_run"])
        targets == set_of(o["targets"])
        r == reset_version(vm_, files_, ~dry_run)
        failed(c) ==
            IF truthy(o["revert_bump_on_error"]) /\ ~dry_run
            THEN IF r.exc # "none"
                 THEN Raised(r.exc, c, r.vm, r.files, git_)
                 ELSE Outcome(B(FALSE), [c EXCEPT !.version = r.vm.master_version],
                              r.vm, r.files, git_)
            ELSE Outcome(B(FALSE), c, vm_, files_, git_)
    IN  IF "bdist_msi" \in targets THEN {failed(ctx)}
        ELSE {Outcome(B(TRUE), with_artifacts(ctx, targets), vm_, files_, git_)}
             \cup {failed(with_artifacts(ctx, produced)) : produced \in SUBSET targets}

tag_dry_run_forgets_name(ctx, name) == ctx

\* TagTask.run, dry-run branch: the context it leaves.
tag_dry_run(ctx, name) == [ctx EXCEPT !.tag_name = name]

\* TagTask.run: `git tag` succeeds unless the tag exists, or fails.
tag_run(o, ctx, vm_, files_, git_) ==
    LET name == format(o["name"].v, ctx)
    IN  IF truthy(o["dry_run"])
        THEN {Outcome(B(TRUE), tag_dry_run(ctx, name), vm_, files_, git_)}
        ELSE {[out EXCEPT !.cmds = {"git tag"}] : out \in
                {Outcome(B(FALSE), ctx, vm_, files_, git_)}
                \cup (IF name \in git_.tags THEN {}
                      ELSE {Outcome(B(TRUE), [ctx EXCEPT !.tag_name = name], vm_,
                                    files_, [git_ EXCEPT !.tags = @ \cup {name}])})}

\* CommitTask.run, before the commit: index.add of the `add` option and
\* `git add .` for add_known; both are made in dry-run mode too, with
\* write=False and --dry-run.
commit_adds(o) ==
    (IF truthy(o["add"])
     THEN {IF truthy(o["dry_run"]) THEN "index.add write=False" ELSE "index.add"}
     ELSE {})
    \cup (IF truthy(o["add_known"])
          THEN {IF truthy(o["dry_run"]) THEN "git add . --dry-run" ELSE "git add ."}
          ELSE {})

\* CommitTask.run.
commit_run(o, ctx, vm_, files_, git_) ==
    IF truthy(o["dry_run"])
    THEN {[Outcome(B(TRUE), ctx, vm_, files_, git_) EXCEPT !.cmds = commit_adds(o)]}
    ELSE {[Outcome(B(TRUE), ctx, vm_, files_, [git_ EXCEPT !.commits = @ + 1])
            EXCEPT !.cmds = commit_adds(o) \cup {"index.commit"}]}

\* PushTask.run: `git push` (with --dry-run in dry-run mode) succeeds or fails.
push_run(o, ctx, vm_, files_, git_) ==
    {[out EXCEPT !.cmds = {IF truthy(o["dry_run"]) THEN "git push --dry-run"
                           ELSE "git push"}] : out \in
        {Outcome(B(FALSE), ctx, vm_, files_, git_),
         Outcome(B(TRUE), ctx, vm_, files_,
                 IF truthy(o["dry_run"]) THEN git_
                 ELSE [git_ EXCEPT !.pushes = @ + 1])}}

\* str.lower() of the program names that occur.
lower(str) ==
    CASE str = "Python" -> "python"
      [] str = "PYTHON" -> "python"
      [] OTHER -> str

\* sys.executable: the interpreter of the virtual environment.
sys_executable == "venv/bin/python"

\* ExecTask.run, `args[0] = sys.executable`: the list opts["args"] after
\* it (the list is changed in place).
exec_args(list) ==
    IF lower(list.items[1]) = "python"
    THEN L(<<sys_executable>> \o Tail(list.items))
    ELSE list

\* ExecTask.run: the subprocess returns 0 or another code, or does not end
\* within the timeout; with add_artifacts (a folder and the one pattern
\* tagged bdist_msi) the folder is watched for new files.
exec_run(o, ctx, vm_, files_, git_) ==
    IF o["args"].items = <<>> THEN {Raised("IndexError", ctx, vm_, files_, git_)}
    ELSE
    LET fixed == exec_args(o["args"])
        mutated == IF fixed # o["args"] THEN "args" :> fixed ELSE NoOpts
        watched == truthy(o["add_artifacts"])
        after == {with_artifacts(ctx, produced) :
                    produced \in IF watched THEN {{}, {"bdist_msi"}} ELSE {{}}}
        outs ==
            IF truthy(o["dry_run"]) /\ ~truthy(o["always"])
               /\ o["dry_run_args"].ty = "NoneType"
            THEN {Outcome(B(TRUE), ctx, vm_, files_, git_)}
            ELSE {Outcome(B(TRUE), c, vm_, files_, git_) : c \in after}
                 \cup (IF truthy(o["ignore_errors"]) THEN {}
                       ELSE {Outcome(B(FALSE), c, vm_, files_, git_) : c \in after})
                 \cup (IF watched THEN {Raised("ValueError", ctx, vm_, files_, git_)}
                       ELSE {})
                 \cup (IF truthy(o["timeout"]) /\ ~truthy(o["stream"])
                       THEN {Raised("TimeoutExpired", ctx, vm_, files_, git_)}
                       ELSE {})
    IN  {[out EXCEPT !.mutated = mutated] : out \in outs}

\* Repository names of the form GH-USER/PROJECT.
ValidRepos == {"mar10/yabs"}

\* GithubReleaseTask.run, `upload = set(context.artifacts)`: the targets to
\* upload, taken from the artifacts whether `upload` is None or a list.
upload_targets(upload, artifacts) == artifacts

\* GithubReleaseTask.run, `if not tag_name`.
tag_name_missing(tag_name) == tag_name = NoText

\* GithubReleaseTask.run.  The requests to GitHub (get_repo, get_tags,
\* create_git_release, upload_asset) succeed or raise; the tag may be
\* missing on GitHub.
github_release_run(o, ctx, vm_, files_, git_, args_) ==
    LET upload == upload_targets(o["upload"], ctx.artifacts)
        plain(res, cmds) ==
            [Outcome(res, ctx, vm_, files_, git_) EXCEPT !.cmds = cmds]
        raised(cmds, uploaded) ==
            [Raised("GithubException", ctx, vm_, files_, git_)
                EXCEPT !.cmds = cmds, !.uploaded = uploaded]
        assets == {t \in ctx.artifacts : ~(upload # {} /\ t \notin upload)}
    IN  IF args_.no_release THEN {plain(B(TRUE), {})}
        ELSE IF truthy(o["repo"]) /\ o["repo"].v \notin ValidRepos
        THEN {Raised("ConfigError", ctx, vm_, files_, git_)}
        ELSE {raised({"get_repo"}, {})}
             \cup
             (IF tag_name_missing(ctx.tag_name)
              THEN {plain(B(FALSE), {"get_repo"})}
              ELSE {raised({"get_repo", "get_tags"}, {})}
                   \cup
                   (IF truthy(o["dry_run"])
                    THEN {plain(B(TRUE), {"get_repo", "get_tags"})}
                    ELSE {plain(B(FALSE), {"get_repo", "get_tags"}),
                          raised({"get_repo", "get_tags", "create_git_release"}, {}),
                          [plain(B(TRUE),
                                 {"get_repo", "get_tags", "create_git_release"})
                              EXCEPT !.uploaded = assets]}
                         \cup {raised({"get_repo", "get_tags", "create_git_release"},
                                      part) : part \in (SUBSET assets) \ {assets}}))

pypi_no_release_ignored(no_release) == FALSE

\* PypiReleaseTask.run, `if cli_arg("no_release")`.
pypi_no_release(no_release) == no_release

\* PypiReleaseTask.run: one `twine upload` per artifact whose target is in
\* `upload`; each succeeds or fails, and all are tried.
pypi_release_run(o, ctx, vm_, files_, git_, args_) ==
    LET upload == IF o["upload"].ty = "NoneType" THEN KNOWN_PYPI_TARGETS
                  ELSE set_of(o["upload"])
        targets == ctx.artifacts \cap upload
    IN  IF pypi_no_release(args_.no_release)
        THEN {Outcome(B(TRUE), ctx, vm_, files_, git_)}
        ELSE IF truthy(o["dry_run"])
        THEN {Outcome(B(TRUE), ctx, vm_, files_, git_)}
        ELSE {[Outcome(B(failed = {}), ctx, vm_, files_, git_)
                 EXCEPT !.cmds = IF targets = {} THEN {} ELSE {"twine upload"},
                        !.uploaded = targets \ failed] :
              failed \in SUBSET targets}

\* WingetReleaseTask.run (--no-winget-release is not passed): wingetcreate
\* succeeds or fails; without --dry-run it is called with --submit.
winget_release_run(o, ctx, vm_, files_, git_, args_) ==
    LET cur_version == ctx.version
        is_prerelease == cur_version.prerelease # <<>>
        is_version_tagged ==
            version_str(cur_version) \in {t.body : t \in git_.tags}
        upload_target == o["upload"].v
        cmd == IF truthy(o["dry_run"]) THEN "wingetcreate update"
               ELSE "wingetcreate update --submit"
    IN  IF args_.no_release THEN {Outcome(SkipTaskResult, ctx, vm_, files_, git_)}
        ELSE IF is_prerelease \/ ~is_version_tagged
        THEN {Outcome(WarningTaskResult, ctx, vm_, files_, git_)}
        ELSE IF upload_target \notin ctx.artifacts
        THEN {Raised("AttributeError", ctx, vm_, files_, git_)}
        ELSE {[Outcome(B(FALSE), ctx, vm_, files_, git_) EXCEPT !.cmds = {cmd}],
              [Outcome(B(TRUE), ctx, vm_, files_, git_)
                 EXCEPT !.cmds = {cmd},
                        !.uploaded = IF truthy(o["dry_run"]) THEN {}
                                     ELSE {upload_target}]}

\* The checks of CheckTask.run, in the order it makes them.
CheckNames == {"build", "can_push", "clean", "github", "os", "python", "pypi",
               "up_to_date", "venv", "version", "winget", "yabs"}

check_result_stops_always(failed, no_check) ==
    IF failed = {} THEN B(TRUE) ELSE B(FALSE)

\* CheckTask.run, after the checks: what it returns for err_list.
check_result(failed, no_check) ==
    IF failed = {} THEN B(TRUE)
    ELSE IF no_check THEN WarningTaskResult
    ELSE B(FALSE)

\* CheckTask.run: every check whose option is set is made; which of them
\* fail is decided by the repository, the platform and the network.
check_run(o, ctx, vm_, files_, git_, args_) ==
    LET enabled == {k \in CheckNames : truthy(o[k])}
    IN  {[Outcome(check_result(failed, args_.no_check), ctx, vm_, files_, git_)
            EXCEPT !.checks = [run |-> enabled, failed |-> failed]] :
         failed \in SUBSET enabled}

\* The run of a task class that a plugin registered: any result.
plugin_run(o, ctx, vm_, files_, git_) ==
    {Outcome(r, ctx, vm_, files_, git_) : r \in RunResults}

task_run(kind, o, ctx, vm_, files_, git_, args_) ==
    CASE kind = "bump" -> bump_run(o, ctx, vm_, files_, git_, args_)
      [] kind = "build" -> build_run(o, ctx, vm_, files_, git_)
      [] kind = "tag" -> tag_run(o, ctx, vm_, files_, git_)
      [] kind = "commit" -> commit_run(o, ctx, vm_, files_, git_)
      [] kind = "push" -> push_run(o, ctx, vm_, files_, git_)
      [] kind = "exec" -> exec_run(o, ctx, vm_, files_, git_)
      [] kind = "check" -> check_run(o, ctx, vm_, files_, git_, args_)
      [] kind = "github_release" ->
            github_release_run(o, ctx, vm_, files_, git_, args_)
      [] kind = "pypi_release" ->
            pypi_release_run(o, ctx, vm_, files_, git_, args_)
      [] kind = "winget_release" ->
            winget_release_run(o, ctx, vm_, files_, git_, args_)
      [] kind \in PluginKinds -> plugin_run(o, ctx, vm_, files_, git_)
      [] OTHER -> {}

\* The class name of a task kind.
class_name(kind) ==
    CASE kind = "bump" -> "BumpTask"
      [] kind = "build" -> "BuildTask"
      [] kind = "tag" -> "TagTask"
      [] kind = "commit" -> "CommitTask"
      [] kind = "push" -> "PushTask"
      [] kind = "exec" -> "ExecTask"
      [] kind = "check" -> "CheckTask"
      [] kind = "github_release" -> "GithubReleaseTask"
      [] kind = "pypi_release" -> "PypiReleaseTask"
      [] kind = "winget_release" -> "WingetReleaseTask"
      [] OTHER -> "PluginTask"

\* task.to_str(context) after run; version_before_bump is context.version
\* as BumpTask.run found it.
to_str(kind, o, ctx, vm_, version_before_bump) ==
    CASE kind = "bump" ->
            ((((("BumpTask(" \o (IF truthy(o["inc"]) THEN o["inc"].v ELSE ctx.inc.v))
                \o ") v") \o version_str(version_before_bump))
              \o " => v") \o version_str(vm_.master_version))
      [] kind = "build" -> ("BuildTask(targets " \o o["targets"].v) \o ")"
      [] kind = "commit" ->
            ("CommitTask(" \o text_str(format(o["message"].v, ctx))) \o ")"
      [] kind = "exec" -> ("ExecTask(" \o o["args"].v) \o ")"
      [] kind = "pypi_release" -> ("PypiReleaseTask(" \o o["upload"].v) \o ")"
      [] OTHER -> class_name(kind) \o "()"

-----------------------------------------------------------------------------
(* TaskRunner and TaskContext.                                             *)

NoExc == [type |-> "none", errors |-> <<>>]

\* The context before TaskRunner.run has created it.
NoContext ==
    [errors |-> <<>>, inc |-> NoneV, dry_run |-> FALSE, tag_name |-> NoText,
     artifacts |-> {}, version |-> NoVersion, org_version |-> NoVersion]

\* TaskContext.__init__ and initialize.
TaskContext(args_, vm_) ==
    [errors |-> <<>>, inc |-> args_.inc, dry_run |-> args_.dry_run,
     tag_name |-> NoText, artifacts |-> {}, version |-> vm_.master_version,
     org_version |-> vm_.master_version]

\* TaskRunner.run: the options handed to the task class: the definition
\* without its "task" key, with dry_run and verbose set from the CLI.
run_opts(task_def, args_) ==
    [k \in ((DOMAIN task_def) \ {"task"}) \cup {"dry_run", "verbose"} |->
        IF k = "dry_run" THEN B(args_.dry_run)
        ELSE IF k = "verbose" THEN I(args_.verbose)
        ELSE task_def[k]]

\* TaskRunner.run, `task_def = task_def.copy()`: the copy is shallow, so an
\* option value that the task changed in place is changed in the task
\* definition of TaskRunner.tasks too.
shared_opts(task_def, mutated) ==
    [k \in DOMAIN task_def |->
        IF k \in DOMAIN mutated THEN mutated[k] ELSE task_def[k]]

\* TaskRunner.run, `if res:` : whether the loop goes on to the next task.
continues(res) == truthy(res)

next_task_retries(i) == i

\* TaskRunner.run, `for task_def in self.tasks`: the index of the task
\* definition after the one at index i.
next_task(i) == i + 1

\* TaskRunner.__init__ after _load: _check_config(parser, args).
_check_config ==
    /\ pc = "loaded"
    /\ LET r == check_loop(tasks, args, config, <<>>)
       IN  IF r.exc # "none"
           THEN /\ pc' = "raised"
                /\ exc' = [type |-> r.exc, errors |-> <<>>]
           ELSE IF r.errors # <<>>
           THEN /\ pc' = "raised"
                /\ exc' = [type |-> "ConfigError", errors |-> r.errors]
           ELSE /\ pc' = "checked"
                /\ exc' = exc
    /\ UNCHANGED <<tasks, args, config, idx, ok, ret, context, hist, warnings,
                   vm, files, files0, git>>
    /\ UNCHANGED writerVars
    /\ UNCHANGED callVars
    /\ UNCHANGED streamVars
    /\ UNCHANGED loadVars
    /\ UNCHANGED pluginVars

\* TaskRunner.run up to its loop: the context is created.
run_begin ==
    /\ pc = "checked"
    /\ pc' = "running"
    /\ context' = TaskContext(args, vm)
    /\ ok' = TRUE
    /\ idx' = 1
    /\ UNCHANGED <<tasks, args, config, ret, exc, hist, warnings, vm, files,
                   files0, git>>
    /\ UNCHANGED writerVars
    /\ UNCHANGED callVars
    /\ UNCHANGED streamVars
    /\ UNCHANGED loadVars
    /\ UNCHANGED pluginVars

\* One iteration of the loop of TaskRunner.run: the task is instantiated
\* and run, and its result decides whether the loop goes on.
run_task ==
    /\ pc = "running"
    /\ ok
    /\ idx <= Len(tasks)
    /\ LET task_def == tasks[idx]
           task_type == task_def["task"].v
           opts_in == run_opts(task_def, args)
           o == merged_opts(task_type, opts_in)
           init_exc == IF task_type \notin task_class_map THEN "ConfigError"
                       ELSE task_init(task_type, opts_in)
           base_ok == task_type \in task_class_map
                      /\ isinstance(opts_in["dry_run"], {"bool"})
                      /\ isinstance(opts_in["verbose"], {"int"})
           unknown == unknown_opts(task_type, opts_in)
           task_str(out) ==
               to_str(task_type, o, out.context, out.vm, context.version)
       IN  /\ warnings' = IF base_ok /\ unknown # {}
                          THEN Append(warnings, [idx |-> idx, unknown |-> unknown])
                          ELSE warnings
           /\ IF init_exc # "none"
              THEN /\ pc' = "raised"
                   /\ exc' = [type |-> init_exc, errors |-> <<>>]
                   /\ UNCHANGED <<tasks, idx, ok, context, hist, vm, files, git>>
              ELSE \E out \in task_run(task_type, o, context, vm, files, git, args) :
                   /\ tasks' = [tasks EXCEPT ![idx] = shared_opts(@, out.mutated)]
                   /\ vm' = out.vm
                   /\ files' = out.files
                   /\ git' = out.git
                   /\ IF out.exc # "none"
                      THEN /\ pc' = "raised"
                           /\ exc' = [type |-> out.exc, errors |-> <<>>]
                           /\ context' = out.context
                           /\ hist' = Append(hist, [idx |-> idx, returned |-> FALSE,
                                                    res |-> NoneV, cont |-> FALSE,
                                                    checks |-> out.checks,
                                                    cmds |-> out.cmds,
                                                    uploaded |-> out.uploaded,
                                                    task_str |-> ""])
                           /\ UNCHANGED <<idx, ok>>
                      ELSE IF continues(out.res)
                      THEN /\ context' = out.context
                           /\ hist' = Append(hist, [idx |-> idx, returned |-> TRUE,
                                                    res |-> out.res, cont |-> TRUE,
                                                    checks |-> out.checks,
                                                    cmds |-> out.cmds,
                                                    uploaded |-> out.uploaded,
                                                    task_str |-> task_str(out)])
                           /\ idx' = next_task(idx)
                           /\ UNCHANGED <<pc, exc, ok>>
                      ELSE /\ context' = [out.context EXCEPT !.errors =
                                Append(@, task_str(out))]
                           /\ hist' = Append(hist, [idx |-> idx, returned |-> TRUE,
                                                    res |-> out.res, cont |-> FALSE,
                                                    checks |-> out.checks,
                                                    cmds |-> out.cmds,
                                                    uploaded |-> out.uploaded,
                                                    task_str |-> task_str(out)])
                           /\ ok' = FALSE
                           /\ UNCHANGED <<pc, exc, idx>>
    /\ UNCHANGED <<args, config, ret, files0>>
    /\ UNCHANGED writerVars
    /\ UNCHANGED callVars
    /\ UNCHANGED streamVars
    /\ UNCHANGED loadVars
    /\ UNCHANGED pluginVars

\* TaskRunner.run, `msg = "Workflow failed in ..."`.
workflow_failed == "Workflow failed"

\* TaskRunner.run after its loop: the summary, and the return of `ok`.
run_finish ==
    /\ pc = "running"
    /\ (~ok \/ idx > Len(tasks))
    /\ pc' = "done"
    /\ ret' = IF ok THEN "True" ELSE "False"
    /\ context' = IF ok THEN context
                  ELSE [context EXCEPT !.errors = Append(@, workflow_failed)]
    /\ UNCHANGED <<tasks, args, config, idx, ok, exc, hist, warnings, vm, files,
                   files0, git>>
    /\ UNCHANGED writerVars
    /\ UNCHANGED callVars
    /\ UNCHANGED streamVars
    /\ UNCHANGED loadVars
    /\ UNCHANGED pluginVars

-----------------------------------------------------------------------------
(* SafeFileWriter and TextFileParser.write, step by step.  A file is       *)
(* [exists, lines]; a line is [match, version, n]: `match` says that the   *)
(* version pattern matches it (its text is then the template holding       *)
(* `version`), `n` tells the other lines apart.  fs holds the target       *)
(* (fspec), the temp file (fspec.tmp) and the backup (fspec.bak).          *)

Absent == [exists |-> FALSE, lines |-> <<>>]
File(lines) == [exists |-> TRUE, lines |-> lines]
VersionLine(v) == [match |-> TRUE, version |-> v, n |-> 0]
TextLine(n) == [match |-> FALSE, version |-> NoVersion, n |-> n]

\* The line TextFileParser.write writes for a line of the source.
patched_line(line, version) ==
    IF line.match THEN VersionLine(version) ELSE line

\* The complete content that a write of `version` gives a file.
patched(file, version) ==
    [exists |-> file.exists,
     lines |-> [i \in 1..Len(file.lines) |-> patched_line(file.lines[i], version)]]

keep_backup_default == TRUE

\* The versions that are written to a version source.
WriteVersions == {V(1, 2, 4), VPre(1, 2, 4, <<Ident("a", 1)>>)}

\* keep_backup as TextFileParser.write passes it to SafeFileWriter.
keep_backup == FALSE

keep_temp_on_error(fs_) == fs_

\* SafeFileWriter.__exit__ with an exception: the temp file is removed.
exit_on_error(fs_) == [fs_ EXCEPT !.tmp = Absent]

\* TextFileParser.write is called (parser.version is wnew);
\* SafeFileWriter.__enter__ removes a stale temp file and opens a new one.
write_enter ==
    /\ wpc \in {"idle", "done", "failed"}
    /\ writes < MaxWrites
    /\ \E version \in WriteVersions : wnew' = version
    /\ writes' = writes + 1
    /\ wpre' = fs.target
    /\ fs' = [fs EXCEPT !.tmp = File(<<>>)]
    /\ wpos' = 0
    /\ wexc' = "none"
    /\ wpc' = "body"
    /\ UNCHANGED runnerVars
    /\ UNCHANGED callVars
    /\ UNCHANGED streamVars
    /\ UNCHANGED loadVars
    /\ UNCHANGED pluginVars

\* The body of the `with`: one more line of the source goes to the temp file.
write_line ==
    /\ wpc = "body"
    /\ fs.target.exists
    /\ wpos < Len(fs.target.lines)
    /\ fs' = [fs EXCEPT !.tmp.lines =
                Append(@, patched_line(fs.target.lines[wpos + 1], wnew))]
    /\ wpos' = wpos + 1
    /\ UNCHANGED <<wpc, wnew, wpre, wexc, writes>>
    /\ UNCHANGED runnerVars
    /\ UNCHANGED callVars
    /\ UNCHANGED streamVars
    /\ UNCHANGED loadVars
    /\ UNCHANGED pluginVars

\* The body of the `with` raises (the source cannot be opened, or a write
\* to the temp file fails): __exit__ is entered with the exception.
body_raises ==
    /\ wpc = "body"
    /\ wpc' = "exit_exc"
    /\ wexc' = "body"
    /\ UNCHANGED <<fs, wpos, wnew, wpre, writes>>
    /\ UNCHANGED runnerVars
    /\ UNCHANGED callVars
    /\ UNCHANGED streamVars
    /\ UNCHANGED loadVars
    /\ UNCHANGED pluginVars

\* SafeFileWriter.__exit__ with exc_type set.
exit_exc ==
    /\ wpc = "exit_exc"
    /\ fs' = exit_on_error(fs)
    /\ wpc' = "failed"
    /\ UNCHANGED <<wpos, wnew, wpre, wexc, writes>>
    /\ UNCHANGED runnerVars
    /\ UNCHANGED callVars
    /\ UNCHANGED streamVars
    /\ UNCHANGED loadVars
    /\ UNCHANGED pluginVars

\* The body of the `with` ends; __exit__ closes the temp file and removes
\* a stale backup.
exit_remove_bak ==
    /\ wpc = "body"
    /\ fs.target.exists
    /\ wpos = Len(fs.target.lines)
    /\ fs' = [fs EXCEPT !.bak = Absent]
    /\ wpc' = "rename_target"
    /\ UNCHANGED <<wpos, wnew, wpre, wexc, writes>>
    /\ UNCHANGED runnerVars
    /\ UNCHANGED callVars
    /\ UNCHANGED streamVars
    /\ UNCHANGED loadVars
    /\ UNCHANGED pluginVars

\* __exit__: os.rename(self.fspec, bak_file).
exit_rename_target ==
    /\ wpc = "rename_target"
    /\ fs' = [fs EXCEPT !.bak = fs.target, !.target = Absent]
    /\ wpc' = "rename_temp"
    /\ UNCHANGED <<wpos, wnew, wpre, wexc, writes>>
    /\ UNCHANGED runnerVars
    /\ UNCHANGED callVars
    /\ UNCHANGED streamVars
    /\ UNCHANGED loadVars
    /\ UNCHANGED pluginVars

\* __exit__: os.rename(self.temp_file, self.fspec).
exit_rename_temp ==
    /\ wpc = "rename_temp"
    /\ fs' = [fs EXCEPT !.target = fs.tmp, !.tmp = Absent]
    /\ wpc' = "drop_backup"
    /\ UNCHANGED <<wpos, wnew, wpre, wexc, writes>>
    /\ UNCHANGED runnerVars
    /\ UNCHANGED callVars
    /\ UNCHANGED streamVars
    /\ UNCHANGED loadVars
    /\ UNCHANGED pluginVars

\* __exit__: the backup is removed unless keep_backup.
exit_drop_backup ==
    /\ wpc = "drop_backup"
    /\ fs' = IF keep_backup THEN fs ELSE [fs EXCEPT !.bak = Absent]
    /\ wpc' = "done"
    /\ UNCHANGED <<wpos, wnew, wpre, wexc, writes>>
    /\ UNCHANGED runnerVars
    /\ UNCHANGED callVars
    /\ UNCHANGED streamVars
    /\ UNCHANGED loadVars
    /\ UNCHANGED pluginVars

\* A step of __exit__ raises OSError (removing the stale backup, renaming
\* the target, renaming the temp file): the exception leaves __exit__.
step_fails ==
    /\ \/ (wpc = "body" /\ fs.target.exists /\ wpos = Len(fs.target.lines)
           /\ fs.bak.exists)
       \/ wpc = "rename_target"
       \/ wpc = "rename_temp"
    /\ wexc' = IF wpc = "body" THEN "remove_bak" ELSE wpc
    /\ wpc' = "failed"
    /\ UNCHANGED <<fs, wpos, wnew, wpre, writes>>
    /\ UNCHANGED runnerVars
    /\ UNCHANGED callVars
    /\ UNCHANGED streamVars
    /\ UNCHANGED loadVars
    /\ UNCHANGED pluginVars

-----------------------------------------------------------------------------
(* Initial states and specifications.                                      *)

Def(kind, opts) == ("task" :> S(kind)) @@ opts

\* Task definitions, valid and invalid, of the workflows of Spec.
TaskDefs ==
    { Def("tag", NoOpts),
      Def("tag", "nam" :> S("v{version}")),
      Def("commit", NoOpts),
      Def("bump", NoOpts),
      Def("bump", ("inc" :> S("patch")) @@ ("check" :> S("yes"))),
      Def("exec", ("args" :> L(<<"make">>)) @@ ("add_artifacts" :> S("dist"))),
      Def("exec", ("args" :> L(<<"make">>)) @@ ("add_artifacts" :> D("bad_regex"))),
      Def("plugin_task", NoOpts),
      Def("deploy", NoOpts) }

\* Task definitions of the release workflows of SpecRelease.
ReleaseTaskDefs ==
    { Def("bump", "inc" :> S("patch")),
      Def("bump", "inc" :> S("minor")),
      Def("bump", NoOpts),
      Def("build", NoOpts),
      Def("build", "revert_bump_on_error" :> B(FALSE)),
      Def("tag", NoOpts),
      Def("commit", NoOpts),
      Def("push", NoOpts) }

Workflows(defs) == UNION {[1..n -> defs] : n \in 0..MaxTasks}

\* The versions the version sources hold when the workflow is loaded.
StartVersions == {V(2, 0, 0), VPre(1, 2, 3, <<Ident("a", 1)>>)}

\* No subprocess is streamed.
NoStream == [mpc |-> "off"]

StreamIdle == stream = NoStream

\* No workflow file is being loaded.
NoDocument == [ty |-> "none"]

LoadIdle == doc = NoDocument

\* The plugin manager is not looked at.
NoPlugins == [pmc |-> "off"]

PluginsIdle == entry_points = <<>> /\ pm = NoPlugins

\* The writer is not running.
WriterIdle ==
    /\ fs = [target |-> Absent, tmp |-> Absent, bak |-> Absent]
    /\ wpc = "idle"
    /\ wpos = 0
    /\ wnew = NoVersion
    /\ wpre = Absent
    /\ wexc = "none"
    /\ writes = 0

\* The state after TaskRunner._load: the workflow file and the version
\* sources are read.
LoadedWith(defs, argset) ==
    /\ tasks \in Workflows(defs)
    /\ args \in argset
    /\ config = [max_increment |-> "minor"]
    /\ pc = "loaded"
    /\ idx = 0
    /\ ok = TRUE
    /\ ret = "none"
    /\ exc = NoExc
    /\ context = NoContext
    /\ hist = <<>>
    /\ warnings = <<>>
    /\ \E start \in StartVersions :
          /\ vm = [master_version |-> start, org_version |-> start,
                   parsers |-> [i \in 1..NumSources |->
                                  [cls |-> "TextFileParser", version |-> start]]]
          /\ files = [i \in 1..NumSources |-> [content |-> start, mtime |-> 0]]
    /\ files0 = files
    /\ git = [tags |-> {}, commits |-> 0, pushes |-> 0]

\* The CLI arguments of `yabs run` with --dry-run and --inc patch or
\* without them, and no other flag.
PlainArgs ==
    [dry_run : BOOLEAN, verbose : {3}, inc : {NoneV, S("patch")},
     no_bump : {FALSE}, no_check : {FALSE}, force : {FALSE},
     force_pre_bump : {FALSE}, no_release : {FALSE}]

Loaded(defs) == LoadedWith(defs, PlainArgs)

\* No direct call of the VersionFileManager API has been made.
NoCall ==
    [op |-> "none", inc |-> "", prefix |-> "", write |-> FALSE,
     calc_only |-> FALSE, vm |-> vm, files |-> files, ret |-> NoVersion,
     exc |-> "none"]

CallsIdle == call = NoCall /\ calls = 0

Init == Loaded(TaskDefs) /\ WriterIdle /\ CallsIdle /\ StreamIdle /\ LoadIdle /\ PluginsIdle

\* As PlainArgs, with or without --no-bump.
ReleaseArgs ==
    [dry_run : BOOLEAN, verbose : {3}, inc : {NoneV, S("patch")},
     no_bump : BOOLEAN, no_check : {FALSE}, force : {FALSE},
     force_pre_bump : {FALSE}, no_release : {FALSE}]

\* The options of a check task that enables the checks in `enabled`.
CheckOpts(enabled) ==
    [k \in CheckNames |->
        IF k \in {"os", "python", "yabs"}
        THEN (IF k \in enabled THEN S("any") ELSE NoneV)
        ELSE B(k \in enabled)]

\* Task definitions of the workflows of SpecCli.
CliTaskDefs ==
    { Def("bump", NoOpts),
      Def("commit", NoOpts),
      Def("check", CheckOpts({"build", "clean", "os"})),
      Def("check", CheckOpts({})) }

\* The CLI arguments with every combination of --dry-run, --inc,
\* --no-bump and --no-check.
CliArgs ==
    [dry_run : BOOLEAN, verbose : {3}, inc : {NoneV, S("patch")},
     no_bump : BOOLEAN, no_check : BOOLEAN, force : {FALSE},
     force_pre_bump : {FALSE}, no_release : {FALSE}]

\* Task definitions of the workflows of SpecPre.
PreTaskDefs ==
    { Def("bump", NoOpts),
      Def("bump", "inc" :> S("postrelease")),
      Def("bump", "prerelease_prefix" :> S("rc")),
      Def("tag", NoOpts),
      Def("commit", NoOpts) }

\* `yabs run --inc postrelease`, with or without --dry-run and
\* --force-pre-bump.
PreArgs ==
    [dry_run : BOOLEAN, verbose : {3}, inc : {S("postrelease")},
     no_bump : {FALSE}, no_check : {FALSE}, force : {FALSE},
     force_pre_bump : BOOLEAN, no_release : {FALSE}]

\* The tag v<version> that an earlier release run made for the version.
tag_of(v) == Text("v", version_str(v))

\* As LoadedWith; the repository may hold the tag of the loaded version.
InitPre ==
    /\ tasks \in Workflows(PreTaskDefs)
    /\ args \in PreArgs
    /\ config = [max_increment |-> "minor"]
    /\ pc = "loaded"
    /\ idx = 0
    /\ ok = TRUE
    /\ ret = "none"
    /\ exc = NoExc
    /\ context = NoContext
    /\ hist = <<>>
    /\ warnings = <<>>
    /\ \E start \in StartVersions :
          /\ vm = [master_version |-> start, org_version |-> start,
                   parsers |-> [i \in 1..NumSources |->
                                  [cls |-> "TextFileParser", version |-> start]]]
          /\ files = [i \in 1..NumSources |-> [content |-> start, mtime |-> 0]]
          /\ git \in [tags : {{}, {tag_of(start)}}, commits : {0}, pushes : {0}]
    /\ files0 = files
    /\ WriterIdle
    /\ CallsIdle /\ StreamIdle /\ LoadIdle /\ PluginsIdle

\* Task definitions of the workflows of SpecPublish.
PublishTaskDefs ==
    { Def("build", NoOpts),
      Def("exec", "args" :> L(<<"python", "-m", "build">>)),
      Def("exec", ("args" :> L(<<"make", "msi">>))
                  @@ ("add_artifacts" :> D("folder_matches"))),
      Def("tag", NoOpts),
      Def("github_release", NoOpts),
      Def("github_release", "upload" :> L(<<"sdist">>)) }

\* `yabs run` with or without --dry-run and --no-release.
PublishArgs ==
    [dry_run : BOOLEAN, verbose : {3}, inc : {NoneV}, no_bump : {FALSE},
     no_check : {FALSE}, force : {FALSE}, force_pre_bump : {FALSE},
     no_release : BOOLEAN]

InitPublish == LoadedWith(PublishTaskDefs, PublishArgs) /\ WriterIdle /\ CallsIdle /\ StreamIdle /\ LoadIdle /\ PluginsIdle

InitRelease == LoadedWith(ReleaseTaskDefs, ReleaseArgs) /\ WriterIdle /\ CallsIdle /\ StreamIdle /\ LoadIdle /\ PluginsIdle

Next == _check_config \/ run_begin \/ run_task \/ run_finish

\* The task runner on workflows of valid and invalid task definitions.
Spec == Init /\ [][Next]_vars

\* The task runner on release workflows (bump, build, tag, commit, push).
SpecRelease == InitRelease /\ [][Next]_vars

InitCli == LoadedWith(CliTaskDefs, CliArgs) /\ WriterIdle /\ CallsIdle /\ StreamIdle /\ LoadIdle /\ PluginsIdle

\* The task runner under every combination of the CLI flags.
SpecCli == InitCli /\ [][Next]_vars

\* The task runner on workflows that build and publish to GitHub.
SpecPublish == InitPublish /\ [][Next]_vars

\* The task runner under --inc postrelease.
SpecPre == InitPre /\ [][Next]_vars

\* Task definitions of the workflows of SpecNoRelease.
NoReleaseTaskDefs ==
    { Def("build", NoOpts),
      Def("exec", ("args" :> L(<<"make", "msi">>))
                  @@ ("add_artifacts" :> D("folder_matches"))),
      Def("tag", NoOpts),
      Def("github_release", NoOpts),
      Def("pypi_release", NoOpts),
      Def("winget_release", ("package_id" :> S("mar10.yabs"))
                            @@ ("upload" :> S("bdist_msi"))) }

InitNoRelease ==
    LoadedWith(NoReleaseTaskDefs, PublishArgs) /\ WriterIdle /\ CallsIdle
    /\ StreamIdle /\ LoadIdle /\ PluginsIdle

\* The task runner on workflows that release to GitHub, PyPI and winget,
\* with and without --no-release.
SpecNoRelease == InitNoRelease /\ [][Next]_vars

\* Task definitions of the workflows of SpecCeiling.
CeilingTaskDefs ==
    { Def("bump", NoOpts),
      Def("bump", "inc" :> S("minor")),
      Def("bump", "inc" :> S("major")),
      Def("tag", NoOpts) }

\* `yabs run` with or without --inc major, --force and --no-bump.
CeilingArgs ==
    [dry_run : {FALSE}, verbose : {3}, inc : {NoneV, S("major")},
     no_bump : BOOLEAN, no_check : {FALSE}, force : BOOLEAN,
     force_pre_bump : {FALSE}, no_release : {FALSE}]

\* The values of the max_increment option of the workflow file.
MaxIncrements == {"patch", "minor", "major"}

\* As LoadedWith, for every value of config.max_increment.
InitCeiling ==
    /\ tasks \in Workflows(CeilingTaskDefs)
    /\ args \in CeilingArgs
    /\ config \in [max_increment : MaxIncrements]
    /\ pc = "loaded"
    /\ idx = 0
    /\ ok = TRUE
    /\ ret = "none"
    /\ exc = NoExc
    /\ context = NoContext
    /\ hist = <<>>
    /\ warnings = <<>>
    /\ vm = [master_version |-> V(1, 2, 3), org_version |-> V(1, 2, 3),
             parsers |-> [i \in 1..NumSources |->
                            [cls |-> "TextFileParser", version |-> V(1, 2, 3)]]]
    /\ files = [i \in 1..NumSources |-> [content |-> V(1, 2, 3), mtime |-> 0]]
    /\ files0 = files
    /\ git = [tags |-> {}, commits |-> 0, pushes |-> 0]
    /\ WriterIdle
    /\ CallsIdle
    /\ StreamIdle
    /\ LoadIdle
    /\ PluginsIdle

\* The task runner under every max_increment, with and without --force.
SpecCeiling == InitCeiling /\ [][Next]_vars

\* The runner is not running.
RunnerIdle ==
    /\ tasks = <<>>
    /\ args = [dry_run |-> FALSE, verbose |-> 3, inc |-> NoneV, no_bump |-> FALSE,
               no_check |-> FALSE, force |-> FALSE, force_pre_bump |-> FALSE,
               no_release |-> FALSE]
    /\ config = [max_increment |-> "minor"]
    /\ pc = "off"
    /\ idx = 0
    /\ ok = TRUE
    /\ ret = "none"
    /\ exc = NoExc
    /\ context = NoContext
    /\ hist = <<>>
    /\ warnings = <<>>
    /\ vm = [master_version |-> V(1, 2, 3), org_version |-> V(1, 2, 3),
             parsers |-> <<>>]
    /\ files = <<>>
    /\ files0 = <<>>
    /\ git = [tags |-> {}, commits |-> 0, pushes |-> 0]

\* One version source on disk, with or without a stale temp file and a
\* stale backup next to it.
InitWrite ==
    /\ RunnerIdle
    /\ fs \in [target : {File(<<VersionLine(V(1, 2, 3))>>),
                         File(<<TextLine(1), VersionLine(V(1, 2, 3)), TextLine(2)>>)},
               tmp : {Absent, File(<<TextLine(9)>>)},
               bak : {Absent, File(<<VersionLine(V(1, 2, 2))>>)}]
    /\ wpc = "idle"
    /\ wpos = 0
    /\ wnew = NoVersion
    /\ wpre = Absent
    /\ wexc = "none"
    /\ writes = 0
    /\ CallsIdle /\ StreamIdle /\ LoadIdle /\ PluginsIdle

-----------------------------------------------------------------------------
(* Direct calls of the VersionFileManager API, as test_bump makes them.    *)

\* The prerelease components of the versions the calls start from.
StartPrereleases ==
    {<<>>, <<Ident("a", 1)>>, <<Ident("", 0)>>, <<Ident("rc", 3)>>}

\* The versions the version sources hold when the manager is created.
BumpVersions ==
    {VPre(1, m, p, pre) : m \in {0, 2}, p \in {0, 3}, pre \in StartPrereleases}

\* The prerelease_prefix arguments that are passed.
Prefixes == {"a", "rc"}

\* (write, calc_only) as the callers pass them.
CallModes == {<<FALSE, TRUE>>, <<FALSE, FALSE>>, <<TRUE, FALSE>>}

\* version_manager.bump(inc, write, prerelease_prefix, calc_only).
call_bump ==
    /\ pc = "api"
    /\ calls < MaxCalls
    /\ \E inc \in INCREMENTS, prefix \in Prefixes, mode \in CallModes :
          LET r == bump(vm, files, inc, mode[1], prefix, mode[2])
          IN  /\ vm' = r.vm
              /\ files' = r.files
              /\ call' = [op |-> "bump", inc |-> inc, prefix |-> prefix,
                          write |-> mode[1], calc_only |-> mode[2], vm |-> vm,
                          files |-> files, ret |-> r.ret, exc |-> r.exc]
    /\ calls' = calls + 1
    /\ UNCHANGED <<tasks, args, config, pc, idx, ok, ret, exc, context, hist,
                   warnings, files0, git>>
    /\ UNCHANGED writerVars
    /\ UNCHANGED streamVars
    /\ UNCHANGED loadVars
    /\ UNCHANGED pluginVars

\* version_manager.set_version(semver, write).
call_set_version ==
    /\ pc = "api"
    /\ calls < MaxCalls
    /\ \E semver \in StartVersions, write \in BOOLEAN :
          LET r == set_version(vm, files, semver, write)
          IN  /\ vm' = r.vm
              /\ files' = r.files
              /\ call' = [op |-> "set_version", inc |-> "", prefix |-> "",
                          write |-> write, calc_only |-> FALSE, vm |-> vm,
                          files |-> files, ret |-> NoVersion, exc |-> r.exc]
    /\ calls' = calls + 1
    /\ UNCHANGED <<tasks, args, config, pc, idx, ok, ret, exc, context, hist,
                   warnings, files0, git>>
    /\ UNCHANGED writerVars
    /\ UNCHANGED streamVars
    /\ UNCHANGED loadVars
    /\ UNCHANGED pluginVars

\* A VersionFileManager over NumSources text files, and no workflow run.
InitBump ==
    /\ tasks = <<>>
    /\ args = [dry_run |-> FALSE, verbose |-> 3, inc |-> NoneV, no_bump |-> FALSE,
               no_check |-> FALSE, force |-> FALSE, force_pre_bump |-> FALSE,
               no_release |-> FALSE]
    /\ config = [max_increment |-> "minor"]
    /\ pc = "api"
    /\ idx = 0
    /\ ok = TRUE
    /\ ret = "none"
    /\ exc = NoExc
    /\ context = NoContext
    /\ hist = <<>>
    /\ warnings = <<>>
    /\ \E start \in BumpVersions :
          /\ vm = [master_version |-> start, org_version |-> start,
                   parsers |-> [i \in 1..NumSources |->
                                  [cls |-> "TextFileParser", version |-> start]]]
          /\ files = [i \in 1..NumSources |-> [content |-> start, mtime |-> 0]]
    /\ files0 = files
    /\ git = [tags |-> {}, commits |-> 0, pushes |-> 0]
    /\ WriterIdle
    /\ CallsIdle /\ StreamIdle /\ LoadIdle /\ PluginsIdle

NextBump == call_bump \/ call_set_version

\* Calls of bump and set_version on a version manager.
SpecBump == InitBump /\ [][NextBump]_vars

\* A VersionFileManager whose last version source is a setup.cfg entry,
\* which SetupCfgFileParser reads and cannot write.
InitSources ==
    /\ tasks = <<>>
    /\ args = [dry_run |-> FALSE, verbose |-> 3, inc |-> NoneV, no_bump |-> FALSE,
               no_check |-> FALSE, force |-> FALSE, force_pre_bump |-> FALSE,
               no_release |-> FALSE]
    /\ config = [max_increment |-> "minor"]
    /\ pc = "api"
    /\ idx = 0
    /\ ok = TRUE
    /\ ret = "none"
    /\ exc = NoExc
    /\ context = NoContext
    /\ hist = <<>>
    /\ warnings = <<>>
    /\ \E start \in BumpVersions :
          /\ vm = [master_version |-> start, org_version |-> start,
                   parsers |-> [i \in 1..NumSources |->
                                  [cls |-> IF i = NumSources
                                           THEN "SetupCfgFileParser"
                                           ELSE "TextFileParser",
                                   version |-> start]]]
          /\ files = [i \in 1..NumSources |-> [content |-> start, mtime |-> 0]]
    /\ files0 = files
    /\ git = [tags |-> {}, commits |-> 0, pushes |-> 0]
    /\ WriterIdle
    /\ CallsIdle /\ StreamIdle /\ LoadIdle /\ PluginsIdle

\* Calls of bump and set_version on a manager with a read-only source.
SpecSources == InitSources /\ [][NextBump]_vars

NextWrite ==
    \/ write_enter \/ write_line \/ body_raises \/ exit_exc \/ exit_remove_bak
    \/ exit_rename_target \/ exit_rename_temp \/ exit_drop_backup \/ step_fails

\* Writes of one version source, with failing steps.
SpecWrite == InitWrite /\ [][NextWrite]_vars

-----------------------------------------------------------------------------
(* run_process_streamed (yabs/util.py), as ExecTask.run calls it for a     *)
(* task with `stream`: the main thread reads the output of the subprocess  *)
(* line by line, the flusher thread passes the buffered lines to           *)
(* on_output.  Times are in tenths of a second.                            *)

\* Clock ticks after the start that are explored.
MaxTime == 4
\* The most lines the subprocess writes.
MaxLines == 2

\* The defaults of poll_interval, flush_min_interval and log_alive.
poll_interval == 1
flush_min_interval == 2
log_alive == 50
\* time.time() when run_process_streamed starts.
start_time == 100

\* The `timeout` option of the exec task (0 stands for None).
Timeouts == {0, 2}

\* A line of output; a blank line holds white space only.
Line(id, blank) == [id |-> id, blank |-> blank]

\* What is passed to on_output: the buffered lines, or the message that
\* the task is still running.
Chunk(kind, lines) == [kind |-> kind, lines |-> lines]
NoChunk == Chunk("none", <<>>)

not_blank(ln) == ~ln.blank

\* flush_lines, the part it runs holding buf_lock: line_buf as it leaves
\* it, and the chunk it goes on to pass to on_output (NoChunk: it has
\* returned).
flush_lines(line_buf, last_flush, now) ==
    LET elap == now - last_flush
        taken == SelectSeq(line_buf, not_blank)
    IN  [line_buf |-> <<>>,
         chunk |-> IF taken # <<>>
                   THEN (IF elap < flush_min_interval THEN NoChunk
                         ELSE Chunk("lines", taken))
                   ELSE IF last_flush = 0 \/ elap < log_alive THEN NoChunk
                   ELSE Chunk("ping", <<>>)]

\* ExecTask.run after run_process_streamed: what it returns for ret_code.
exec_result(ret_code, ignore_errors) ==
    IF ret_code # "0" /\ ignore_errors THEN B(TRUE) ELSE B(ret_code = "0")

\* run_process_streamed up to `flusher.start()`, for a subprocess that
\* Popen has started.
StreamStart(timeout, ignore_errors) ==
    [mpc |-> "poll", fpc |-> "wait", proc |-> "running", code |-> "None",
     pipe |-> <<>>, emitted |-> 0, out |-> <<>>, line_buf |-> <<>>,
     last_flush |-> 0, is_timed_out |-> FALSE, stop |-> FALSE,
     fchunk |-> NoChunk, fnow |-> 0, fwait |-> start_time, output |-> <<>>,
     now |-> start_time, timeout |-> timeout, ignore_errors |-> ignore_errors,
     result |-> NoneV]

stream_step(next) ==
    /\ stream' = next
    /\ UNCHANGED runnerVars
    /\ UNCHANGED writerVars
    /\ UNCHANGED callVars
    /\ UNCHANGED loadVars
    /\ UNCHANGED pluginVars

\* Main thread, `while process.poll() is None`.
m_poll ==
    /\ stream.mpc = "poll"
    /\ stream_step([stream EXCEPT
            !.mpc = IF stream.proc = "running" THEN "readline" ELSE "finally"])

\* Main thread, `line = process.stdout.readline()` up to
\* `line_buf.extend(lines)`: readline blocks until the subprocess has
\* written a line or has closed its output.
m_readline ==
    /\ stream.mpc = "readline"
    /\ stream.pipe # <<>> \/ stream.proc # "running"
    /\ LET line == IF stream.pipe # <<>> THEN Head(stream.pipe) ELSE Line(0, TRUE)
       IN  stream_step([stream EXCEPT
                !.mpc = "check_kill",
                !.pipe = IF @ # <<>> THEN Tail(@) ELSE @,
                !.out = IF stream.pipe # <<>> THEN Append(@, line) ELSE @,
                !.line_buf = Append(@, line)])

\* Main thread, `if kill_time and time.time() > kill_time`.
m_check_kill ==
    /\ stream.mpc = "check_kill"
    /\ IF stream.timeout # 0 /\ stream.now > start_time + stream.timeout
       THEN stream_step([stream EXCEPT
                !.is_timed_out = TRUE,
                !.proc = IF @ = "running" THEN "killed" ELSE @,
                !.mpc = "finally"])
       ELSE stream_step([stream EXCEPT !.mpc = "poll"])

\* Main thread, `buf_stop_request.set()`.
m_finally ==
    /\ stream.mpc = "finally"
    /\ stream_step([stream EXCEPT !.stop = TRUE, !.mpc = "join"])

\* Main thread, `flusher.join()`.
m_join ==
    /\ stream.mpc = "join"
    /\ stream.fpc = "stopped"
    /\ stream_step([stream EXCEPT !.mpc = "flush"])

\* Main thread, the last flush_lines() and the return, and the result
\* that ExecTask.run makes of the return code.
m_return ==
    /\ stream.mpc = "flush"
    /\ LET f == flush_lines(stream.line_buf, stream.last_flush, stream.now)
       IN  stream_step([stream EXCEPT
                !.mpc = "returned",
                !.line_buf = f.line_buf,
                !.last_flush = IF f.chunk # NoChunk THEN stream.now ELSE @,
                !.output = IF f.chunk # NoChunk THEN Append(@, f.chunk) ELSE @,
                !.result = exec_result(stream.code, stream.ignore_errors)])

\* Flusher thread, `while not buf_stop_request.wait(poll_interval)` and
\* the part of flush_lines under buf_lock.
f_wait ==
    /\ stream.fpc = "wait"
    /\ IF stream.stop
       THEN stream_step([stream EXCEPT !.fpc = "stopped"])
       ELSE /\ stream.now >= stream.fwait + poll_interval
            /\ LET f == flush_lines(stream.line_buf, stream.last_flush, stream.now)
               IN  stream_step([stream EXCEPT
                        !.line_buf = f.line_buf,
                        !.fchunk = f.chunk,
                        !.fnow = stream.now,
                        !.fwait = stream.now,
                        !.fpc = IF f.chunk # NoChunk THEN "output" ELSE "wait"])

\* Flusher thread, the end of flush_lines: last_flush and on_output.
f_output ==
    /\ stream.fpc = "output"
    /\ stream_step([stream EXCEPT
            !.last_flush = stream.fnow,
            !.output = Append(@, stream.fchunk),
            !.fchunk = NoChunk,
            !.fwait = stream.now,
            !.fpc = "wait"])

\* The subprocess writes a line.
p_emit ==
    /\ stream.mpc \notin {"off", "returned"}
    /\ stream.proc = "running"
    /\ stream.emitted < MaxLines
    /\ \E blank \in BOOLEAN :
          stream_step([stream EXCEPT
              !.emitted = @ + 1,
              !.pipe = Append(@, Line(stream.emitted + 1, blank))])

\* The subprocess ends.
p_exit ==
    /\ stream.mpc \notin {"off", "returned"}
    /\ stream.proc = "running"
    /\ \E code \in {"0", "1"} :
          stream_step([stream EXCEPT !.proc = "exited", !.code = code])

\* A tenth of a second passes.
tick ==
    /\ stream.mpc \notin {"off", "returned"}
    /\ stream.now < start_time + MaxTime
    /\ stream_step([stream EXCEPT !.now = @ + 1])

\* An exec task with `stream` has started its subprocess.
InitStream ==
    /\ RunnerIdle
    /\ WriterIdle
    /\ CallsIdle
    /\ LoadIdle
    /\ PluginsIdle
    /\ stream \in {StreamStart(timeout, ignore_errors) :
                      timeout \in Timeouts, ignore_errors \in BOOLEAN}

MainStep == m_poll \/ m_readline \/ m_check_kill \/ m_finally \/ m_join \/ m_return

FlusherStep == f_wait \/ f_output

NextStream == MainStep \/ FlusherStep \/ p_emit \/ p_exit \/ tick

\* The two threads of run_process_streamed, the subprocess and the clock.
SpecStream == InitStream /\ [][NextStream]_vars

\* As SpecStream, where both threads are scheduled and time passes; the
\* subprocess need neither write nor end.
SpecStreamFair ==
    SpecStream /\ WF_vars(MainStep) /\ WF_vars(FlusherStep) /\ WF_vars(tick)

-----------------------------------------------------------------------------
(* TaskRunner._load: the workflow file is parsed and the version manager   *)
(* is created.  `doc` is what yaml.safe_load returned: a value that is no  *)
(* mapping, or a mapping [ty, v, items] whose items map the top-level keys *)
(* to their values.                                                        *)

\* A str, with its first five characters (all of it when it is shorter)
\* kept apart, so that startswith can be taken.
Str(head, rest) == [ty |-> "str", v |-> head \o rest, head |-> head]

\* s.startswith(prefix) for a prefix of five characters.
startswith(s, prefix) == s.head = prefix

\* d.get(key, default).
get_default(d, key, default) == IF key \in DOMAIN d THEN d[key] ELSE default

\* The `config` and `tasks` sections of a workflow file.
ConfigSection(max_increment) ==
    [ty |-> "dict", v |-> "config", max_increment |-> max_increment]
TasksSection(defs) == [ty |-> "list", v |-> "tasks", defs |-> defs]

\* A workflow file that is a mapping.
Mapping(items) == [ty |-> "dict", v |-> "mapping", items |-> items]

\* VersionFileManager.__init__ and _scan_versions: one parser per
\* configured location; each parses its file, and the version of the first
\* becomes master_version and org_version.
_scan_versions(files_) ==
    [master_version |-> files_[1].content, org_version |-> files_[1].content,
     parsers |-> [i \in 1..Len(files_) |->
                    [cls |-> "TextFileParser", version |-> files_[i].content]]]

\* The manager before its constructor ran.
NoManager == [master_version |-> NoVersion, org_version |-> NoVersion,
              parsers |-> <<>>]

\* TaskRunner._load up to its first raise: [exc, stage]; stage tells how
\* far it came ("marker": the file_version test, "config", "tasks": the
\* two sections, "done").
_load_result(res) ==
    IF res.ty # "dict" THEN [exc |-> "ConfigError", stage |-> "marker"]
    ELSE LET file_version == get_default(res.items, "file_version", Str("", ""))
         IN  IF file_version.ty # "str"
             THEN [exc |-> "AttributeError", stage |-> "marker"]
             ELSE IF ~startswith(file_version, "yabs#")
             THEN [exc |-> "ConfigError", stage |-> "marker"]
             ELSE IF "config" \notin DOMAIN res.items
             THEN [exc |-> "KeyError", stage |-> "config"]
             ELSE IF check_arg(res.items["config"], {"dict"}, TRUE, FALSE) # "none"
             THEN [exc |-> "TypeError", stage |-> "config"]
             ELSE IF "tasks" \notin DOMAIN res.items
             THEN [exc |-> "KeyError", stage |-> "tasks"]
             ELSE IF check_arg(res.items["tasks"], {"list"}, TRUE, FALSE) # "none"
             THEN [exc |-> "TypeError", stage |-> "tasks"]
             ELSE [exc |-> "none", stage |-> "done"]

\* TaskRunner.__init__ up to the end of _load.
_load ==
    /\ pc = "new"
    /\ LET r == _load_result(doc)
       IN  /\ pc' = IF r.exc = "none" THEN "loaded" ELSE "raised"
           /\ exc' = IF r.exc = "none" THEN exc
                     ELSE [type |-> r.exc, errors |-> <<>>]
           /\ config' = IF r.stage \in {"tasks", "done"}
                        THEN [max_increment |-> doc.items["config"].max_increment]
                        ELSE config
           /\ tasks' = IF r.stage = "done" THEN doc.items["tasks"].defs ELSE tasks
           /\ vm' = IF r.stage = "done" THEN _scan_versions(files) ELSE vm
    /\ UNCHANGED <<args, idx, ok, ret, context, hist, warnings, files, files0, git>>
    /\ UNCHANGED writerVars
    /\ UNCHANGED callVars
    /\ UNCHANGED streamVars
    /\ UNCHANGED loadVars
    /\ UNCHANGED pluginVars

\* Task definitions of the workflow files of SpecLoad.
LoadTaskDefs ==
    { Def("tag", NoOpts),
      Def("bump", "inc" :> S("patch")),
      Def("exec", NoOpts),
      Def("deploy", NoOpts) }

\* The values of the file_version key: yabs#1, yabs-1, 1.0, the number 1
\* and an empty value.
FileVersions == {Str("yabs#", "1"), Str("yabs-", "1"), Str("1.0", ""), I(1), NoneV}

\* The workflow files: documents that are no mapping (an empty file, a
\* list, a scalar), mappings without file_version or without tasks, and
\* mappings with all three keys.
Documents ==
    {NoneV, L(<<>>), S("text")}
    \cup {Mapping(("config" :> ConfigSection("minor")) @@ ("tasks" :> TasksSection(defs))) :
             defs \in Workflows(LoadTaskDefs)}
    \cup {Mapping(("file_version" :> Str("yabs#", "1"))
                  @@ ("config" :> ConfigSection("minor")))}
    \cup {Mapping(("file_version" :> Str("yabs#", "1"))
                  @@ ("config" :> ConfigSection("minor")) @@ ("tasks" :> NoneV))}
    \cup {Mapping(("file_version" :> fv) @@ ("config" :> ConfigSection("minor"))
                  @@ ("tasks" :> TasksSection(defs))) :
             fv \in FileVersions, defs \in Workflows(LoadTaskDefs)}

\* A TaskRunner is being created for a workflow file; the version sources
\* on disk need not hold the same version.
InitLoad ==
    /\ doc \in Documents
    /\ tasks = <<>>
    /\ args \in PlainArgs
    /\ config = [max_increment |-> "minor"]
    /\ pc = "new"
    /\ idx = 0
    /\ ok = TRUE
    /\ ret = "none"
    /\ exc = NoExc
    /\ context = NoContext
    /\ hist = <<>>
    /\ warnings = <<>>
    /\ vm = NoManager
    /\ files \in [1..NumSources -> [content : StartVersions, mtime : {0}]]
    /\ files0 = files
    /\ git = [tags |-> {}, commits |-> 0, pushes |-> 0]
    /\ WriterIdle
    /\ CallsIdle
    /\ StreamIdle
    /\ PluginsIdle

NextLoad == _load \/ Next

\* The task runner from the creation of the TaskRunner on.
SpecLoad == InitLoad /\ [][NextLoad]_vars

-----------------------------------------------------------------------------
(* PluginManager (yabs/plugin_manager.py).  An installed entry point is    *)
(* [name, behaviour]; behaviour tells what ep.load() and the function it   *)
(* returns do.  pm holds the class attributes: _entry_point_map as the     *)
(* sequence of its items [name, ep, loaded] (ep is the index of the entry  *)
(* point, loaded says that the value was replaced by the loaded function), *)
(* and task_class_map as a function from task names to classes.  A class   *)
(* is [kind, name, ep]: the task class of a built-in kind, or what the     *)
(* register function of entry point ep returned.                           *)

\* Number of installed entry points of the group yabs.tasks.
MaxPlugins == 2

\* The names of the installed entry points; tag is also a core task.
PluginNames == {"deploy", "notify", "tag"}

\* What an entry point does: load() raises; load() returns an object that
\* is not callable; the loaded function raises; or it returns a subclass
\* of WorkflowTask, a class of its own with or without the attribute
\* `name`, or an object that is no class.
Behaviours == {"load_raises", "not_callable", "register_raises", "task",
               "class_named", "class_unnamed", "object"}

EntryPoints == [name : PluginNames, behaviour : Behaviours]

\* The task classes that task_class_map is pre-filled with.
CoreKinds == handler_map \cup {"build"}

CoreClass(kind) == [kind |-> "core", name |-> kind, ep |-> 0]

\* The class attributes of PluginManager when the module is imported.
PluginManager ==
    [pmc |-> "on",
     entry_points_searched |-> FALSE,
     plugins_registered |-> FALSE,
     _entry_point_map |-> <<>>,
     task_class_map |-> [k \in CoreKinds |-> CoreClass(k)],
     exc |-> "none",
     calls |-> 0,
     before |-> [k \in CoreKinds |-> CoreClass(k)]]

\* The loop of find_plugins over iter_entry_points from entry point k on.
RECURSIVE find_loop(_, _, _, _)
find_loop(eps, k, ep_map, known) ==
    IF k > Len(eps) THEN ep_map
    ELSE IF \E m \in 1..Len(ep_map) : ep_map[m].name = eps[k].name
    THEN find_loop(eps, k + 1, ep_map, known)
    ELSE IF eps[k].name \in known
    THEN find_loop(eps, k + 1, ep_map, known)
    ELSE find_loop(eps, k + 1,
                   Append(ep_map, [name |-> eps[k].name, ep |-> k,
                                   loaded |-> FALSE]),
                   known)

\* PluginManager.find_plugins.
find_plugins(pm_, eps) ==
    IF pm_.entry_points_searched THEN pm_
    ELSE [pm_ EXCEPT
            !.entry_points_searched = TRUE,
            !._entry_point_map =
                find_loop(eps, 1, pm_._entry_point_map, DOMAIN pm_.task_class_map)]

\* The local register_fn before the first assignment to it.
Unbound == [bound |-> FALSE, callable |-> FALSE, ep |-> 0]

\* register_fn as ep.load() of entry point k left it.
loaded_fn(eps, k, register_fn) ==
    IF eps[k].behaviour = "load_raises" THEN register_fn
    ELSE [bound |-> TRUE, callable |-> eps[k].behaviour # "not_callable", ep |-> k]

\* register_fn(task_base=WorkflowTask): [exc, plugin].
call_register_fn(eps, register_fn) ==
    IF ~register_fn.bound THEN [exc |-> "UnboundLocalError", plugin |-> NoneV]
    ELSE IF ~register_fn.callable THEN [exc |-> "TypeError", plugin |-> NoneV]
    ELSE LET ep == eps[register_fn.ep]
         IN  CASE ep.behaviour = "register_raises" ->
                    [exc |-> "Exception", plugin |-> NoneV]
               [] ep.behaviour = "task" ->
                    [exc |-> "none",
                     plugin |-> [kind |-> "task", name |-> ep.name,
                                 ep |-> register_fn.ep]]
               [] ep.behaviour = "class_named" ->
                    [exc |-> "none",
                     plugin |-> [kind |-> "class", name |-> ep.name,
                                 ep |-> register_fn.ep]]
               [] ep.behaviour = "class_unnamed" ->
                    [exc |-> "none",
                     plugin |-> [kind |-> "class", name |-> "",
                                 ep |-> register_fn.ep]]
               [] OTHER ->
                    [exc |-> "none",
                     plugin |-> [kind |-> "object", name |-> "",
                                 ep |-> register_fn.ep]]

\* The checks of register_plugins on what the register function returned:
\* the exception they raise ("none": the plugin is registered).
plugin_check(plugin, name) ==
    IF plugin.kind = "task" THEN "none"
    ELSE IF plugin.kind = "object" THEN "TypeError"
    ELSE IF plugin.name # name THEN "RuntimeError"
    ELSE "none"

\* The loop of register_plugins from item k of _entry_point_map on;
\* register_fn is the local of that name as the iterations before left it.
RECURSIVE register_loop(_, _, _, _, _)
register_loop(eps, ep_map, k, register_fn, tcm) ==
    IF k > Len(ep_map)
    THEN [_entry_point_map |-> ep_map, task_class_map |-> tcm, exc |-> "none"]
    ELSE LET name == ep_map[k].name
             fn == loaded_fn(eps, ep_map[k].ep, register_fn)
             ep_map1 == IF eps[ep_map[k].ep].behaviour \in {"load_raises", "not_callable"}
                        THEN ep_map
                        ELSE [ep_map EXCEPT ![k].loaded = TRUE]
             r == call_register_fn(eps, fn)
         IN  IF r.exc # "none"
             THEN register_loop(eps, ep_map1, k + 1, fn, tcm)
             ELSE IF plugin_check(r.plugin, name) # "none"
             THEN [_entry_point_map |-> ep_map1, task_class_map |-> tcm,
                   exc |-> plugin_check(r.plugin, name)]
             ELSE register_loop(eps, ep_map1, k + 1, fn,
                                (name :> r.plugin) @@ tcm)

\* PluginManager.register_plugins.
register_plugins(pm_, eps) ==
    IF pm_.plugins_registered THEN [pm_ EXCEPT !.exc = "none"]
    ELSE LET found == find_plugins([pm_ EXCEPT !.plugins_registered = TRUE], eps)
             r == register_loop(eps, found._entry_point_map, 1, Unbound,
                                found.task_class_map)
         IN  [found EXCEPT !._entry_point_map = r._entry_point_map,
                           !.task_class_map = r.task_class_map,
                           !.exc = r.exc]

plugin_step(next) ==
    /\ pm' = [next EXCEPT !.calls = pm.calls + 1, !.before = pm.task_class_map]
    /\ UNCHANGED entry_points
    /\ UNCHANGED runnerVars
    /\ UNCHANGED writerVars
    /\ UNCHANGED callVars
    /\ UNCHANGED streamVars
    /\ UNCHANGED loadVars

\* A call of PluginManager.find_plugins().
call_find_plugins ==
    /\ pm.pmc = "on"
    /\ pm.calls < MaxCalls
    /\ plugin_step([find_plugins(pm, entry_points) EXCEPT !.exc = "none"])

\* A call of PluginManager.register_plugins().
call_register_plugins ==
    /\ pm.pmc = "on"
    /\ pm.calls < MaxCalls
    /\ plugin_step(register_plugins(pm, entry_points))

\* The yabs module is imported; up to MaxPlugins entry points are installed.
InitPlugins ==
    /\ RunnerIdle
    /\ WriterIdle
    /\ CallsIdle
    /\ StreamIdle
    /\ LoadIdle
    /\ entry_points \in UNION {[1..n -> EntryPoints] : n \in 0..MaxPlugins}
    /\ pm = PluginManager

NextPlugins == call_find_plugins \/ call_register_plugins

\* Calls of find_plugins and register_plugins.
SpecPlugins == InitPlugins /\ [][NextPlugins]_vars

-----------------------------------------------------------------------------
(* Properties of the task runner.                                          *)

\* The kind of the task that entry i of hist stands for.
kind_at(i) == tasks[hist[i].idx]["task"].v

\* Entry i of hist is a task whose run returned an Error result.
returned_error(i) == hist[i].returned /\ status_of(hist[i].res) = "error"

\* C1: if the run of task i returns an Error result, no task after i is
\* instantiated or run, and TaskRunner.run returns False.
C1_SequentialStop ==
    \A i \in 1..Len(hist) :
        returned_error(i) =>
            /\ i = Len(hist)
            /\ idx = hist[i].idx
            /\ pc # "raised"
            /\ (pc = "done" => ret = "False")

\* The task definition has a configuration error that the pre-flight check
\* meets: an unknown task kind, or a check_task_def that fails.
has_config_error(task_def) ==
    LET one == check_one(task_def, args, config)
    IN  one.exc # "none" \/ one.errors # <<>>

\* Every message of seq occurs in the sequence errors.
reports(errors, seq) ==
    \A k \in 1..Len(seq) : \E m \in 1..Len(errors) : errors[m] = seq[k]

\* C2: when two or more task definitions have a configuration error, the
\* construction of the TaskRunner fails with one ConfigError that holds
\* the error of every failing task, and no task is run.
C2_PreflightAggregates ==
    LET failing == {i \in 1..Len(tasks) : has_config_error(tasks[i])}
    IN  (pc # "loaded" /\ Cardinality(failing) >= 2) =>
            /\ pc = "raised"
            /\ exc.type = "ConfigError"
            /\ Len(exc.errors) >= Cardinality(failing)
            /\ \A i \in failing :
                  reports(exc.errors, check_one(tasks[i], args, config).errors)
            /\ hist = <<>>

\* C3: for every value a run returns, the runner goes on to the next task
\* exactly when its status is ok, skip or warning, and stops the workflow
\* and reports failure exactly when it is error.
C3_ContinueIffNotError ==
    \A i \in 1..Len(hist) :
        hist[i].returned =>
            /\ hist[i].cont <=> status_of(hist[i].res) \in {"ok", "skip", "warning"}
            /\ (returned_error(i) /\ pc = "done") => ret = "False"

\* C9: no task instance with an option key outside its default options and
\* the common options is created or run: the constructor raises.
C9_UnknownOptionRejected ==
    /\ \A i \in 1..Len(hist) :
          unknown_opts(kind_at(i), run_opts(tasks[hist[i].idx], args)) = {}
    /\ warnings = <<>>

\* The constructor of the task class raises for the task definition.
constructor_raises(task_def) ==
    /\ task_def["task"].v \in task_class_map
    /\ task_init(task_def["task"].v, run_opts(task_def, args)) # "none"

\* C10: every configuration or validation error of a task definition is
\* detected before any run: when a definition is invalid, no task has run.
C10_ErrorsBeforeAnyRun ==
    (\E i \in 1..Len(tasks) :
        has_config_error(tasks[i]) \/ constructor_raises(tasks[i]))
    => hist = <<>>

\* C4: in dry-run mode a workflow of bump, build, tag, commit and push
\* tasks writes no version source file (content and mtime stay) and
\* creates no git tag and no commit.
C4_DryRunWritesNothing ==
    args.dry_run =>
        /\ files = files0
        /\ git.tags = {}
        /\ git.commits = 0

\* A dry run of three tasks, a bump among them, has finished and the
\* in-memory version has moved.
C4_Witness ==
    /\ args.dry_run
    /\ pc = "done"
    /\ Len(hist) = 3
    /\ \E i \in 1..3 : kind_at(i) = "bump"
    /\ \E i \in 1..3 : kind_at(i) \in {"tag", "commit"}
    /\ vm.master_version # vm.org_version
    /\ \A i \in 1..NumSources : vm.parsers[i].version # files[i].content

\* The workflow [bump(inc=patch), tag, commit], dry-run, from 2.0.0.
C5_Scenario ==
    /\ tasks = <<Def("bump", "inc" :> S("patch")), Def("tag", NoOpts),
                 Def("commit", NoOpts)>>
    /\ args.dry_run
    /\ vm.org_version = V(2, 0, 0)

\* C5: [bump(inc=patch), tag, commit] in dry-run mode from 2.0.0 without
\* tags ends successfully with context.version 2.0.1, context.org_version
\* 2.0.0 and context.tag_name v2.0.1, and nothing is written.
C5_DryRunRelease ==
    C5_Scenario =>
        /\ pc # "raised"
        /\ ok
        /\ pc = "done" =>
              /\ ret = "True"
              /\ Len(hist) = 3
              /\ version_str(context.version) = "2.0.1"
              /\ version_str(context.org_version) = "2.0.0"
              /\ text_str(context.tag_name) = "v2.0.1"
              /\ files = files0
              /\ git = [tags |-> {}, commits |-> 0, pushes |-> 0]

C5_Witness == C5_Scenario /\ pc = "done" /\ Len(hist) = 3

-----------------------------------------------------------------------------
(* Properties of the writes of a version source.                           *)

\* C6: when the body of a write raises after content went to the temp
\* file and before any rename, the target holds what it held before the
\* write began and the temp file is deleted.
C6_BodyErrorLeavesTarget ==
    (wpc = "failed" /\ wexc = "body") =>
        /\ fs.target = wpre
        /\ ~fs.tmp.exists

\* A write failed in its body after a line was written to the temp file.
C6_Witness ==
    /\ wpc = "failed"
    /\ wexc = "body"
    /\ wpos >= 1
    /\ fs.target.exists

\* C7: at every step of a write the target holds the complete pre-write
\* content or the complete new content, and a failed step is rolled back.
C7_AtomicAtEveryStep ==
    wpc # "idle" =>
        /\ fs.target \in {wpre, patched(wpre, wnew)}
        /\ wpc = "failed" => (fs.target = wpre /\ ~fs.tmp.exists)

\* C8 as stated: after every successful write a .bak sibling holds the
\* pre-write content, and stays until the next write.
C8_BackupKept ==
    wpc = "done" => (fs.bak.exists /\ fs.bak = wpre)

\* C8 amended: the .bak sibling holds the pre-write content from the
\* rename of the target until the new content is in place; the last step
\* of a successful write removes it, so none remains afterwards.
C8_BackupOnlyDuringWrite ==
    /\ wpc \in {"rename_temp", "drop_backup"} => (fs.bak.exists /\ fs.bak = wpre)
    /\ wpc = "done" => (~fs.bak.exists /\ fs.target = patched(wpre, wnew))

\* A write has succeeded and changed the target.
C8_Witness ==
    /\ wpc = "done"
    /\ fs.target.exists
    /\ fs.target # wpre

-----------------------------------------------------------------------------
(* Properties of VersionFileManager.bump.                                  *)

\* The last call was bump(inc, ...).
bumped(inc) == call.op = "bump" /\ call.inc = inc

\* master_version when the last call was made.
v_before == call.vm.master_version

\* C12: for a version without prerelease, bump(patch) returns the same
\* major and minor, patch + 1, and an empty prerelease.
C12_PatchAdvances ==
    (bumped("patch") /\ v_before.prerelease = <<>>) =>
        /\ call.exc = "none"
        /\ call.ret = V(v_before.major, v_before.minor, v_before.patch + 1)

C12_Witness ==
    /\ bumped("patch")
    /\ v_before.prerelease = <<>>
    /\ ~call.calc_only
    /\ vm.master_version.patch = v_before.patch + 1

\* C13: for a version with a prerelease identifier, bump(patch) returns
\* the same major, minor and patch with an empty prerelease.
C13_PatchFinalizesPrerelease ==
    (bumped("patch") /\ v_before.prerelease # <<>>) =>
        /\ call.exc = "none"
        /\ call.ret = V(v_before.major, v_before.minor, v_before.patch)

C13_Witness ==
    /\ bumped("patch")
    /\ v_before.prerelease # <<>>
    /\ v_before.patch = 3
    /\ version_str(call.ret) = "1.2.3"

\* C14: for every version (M,m,p), with or without prerelease, bump(major)
\* returns (M+1,0,0) with an empty prerelease.
C14_MajorAlwaysAdvances ==
    bumped("major") =>
        /\ call.exc = "none"
        /\ call.ret = V(v_before.major + 1, 0, 0)

\* C15: for a version with an empty prerelease, bump(prerelease) raises,
\* returns no version, and leaves master_version and every source as they
\* were.
C15_PrereleaseOfReleaseRaises ==
    (bumped("prerelease") /\ v_before.prerelease = <<>>) =>
        /\ call.exc = "RuntimeError"
        /\ call.ret = NoVersion
        /\ vm = call.vm
        /\ files = call.files

C15_Witness ==
    /\ bumped("prerelease")
    /\ v_before.prerelease = <<>>
    /\ ~call.calc_only
    /\ call.write
    /\ call.exc # "none"

\* C16: for a version (M,m,p) without prerelease, bump(postrelease)
\* returns (M,m,p+1) with the one prerelease identifier prefix + start
\* index, the start index being 1 unless configured (1.2.3 -> 1.2.4-a1).
C16_PostreleaseStartsAtStartIndex ==
    (bumped("postrelease") /\ v_before.prerelease = <<>>) =>
        /\ call.exc = "none"
        /\ call.ret = VPre(v_before.major, v_before.minor, v_before.patch + 1,
                           <<Ident(call.prefix, 1)>>)

\* The version has one prerelease identifier of the form letters, number.
has_numbered_prerelease(v) ==
    Len(v.prerelease) = 1 /\ v.prerelease[1].rest = ""

\* C17: for a version with a prerelease identifier letters + n,
\* bump(prerelease) and bump(postrelease) both return the same
\* major.minor.patch with the one identifier prerelease_prefix + (n+1);
\* another existing prefix is replaced.
C17_PrereleaseIncrements ==
    ((bumped("prerelease") \/ bumped("postrelease"))
     /\ has_numbered_prerelease(v_before)) =>
        /\ call.exc = "none"
        /\ call.ret = VPre(v_before.major, v_before.minor, v_before.patch,
                           <<Ident(call.prefix, v_before.prerelease[1].number + 1)>>)

\* A prerelease with another prefix was incremented (1.x.y-rc3 -> 1.x.y-a4).
C17_Witness ==
    /\ bumped("postrelease")
    /\ v_before.prerelease = <<Ident("rc", 3)>>
    /\ call.prefix = "a"
    /\ call.ret.prerelease = <<Ident("a", 4)>>

\* C18: bump(inc, calc_only=True) returns the computed next version and
\* leaves master_version, org_version and every source's version and file
\* as they were.
C18_CalcOnlyChangesNothing ==
    (call.op = "bump" /\ call.calc_only) =>
        /\ vm = call.vm
        /\ files = call.files
        /\ call.exc = "none" =>
              call.ret = v_next(vm.master_version, call.inc, call.prefix)

\* The second of two calls is a calc_only bump that returned a version
\* other than the current one.
C18_Witness ==
    /\ calls = 2
    /\ call.op = "bump"
    /\ call.calc_only
    /\ call.ret # NoVersion
    /\ call.ret # vm.master_version
    /\ vm.master_version = vm.org_version

-----------------------------------------------------------------------------
(* Properties of the build task.                                           *)

\* The last task that ran is a build task that returned False.
build_failed_last ==
    /\ hist # <<>>
    /\ kind_at(Len(hist)) = "build"
    /\ hist[Len(hist)].returned
    /\ hist[Len(hist)].res = B(FALSE)

\* revert_bump_on_error of the last task that ran.
reverts_last ==
    truthy(merged_opts("build", run_opts(tasks[hist[Len(hist)].idx], args))
               ["revert_bump_on_error"])

\* A bump task returned True before the last task.
bumped_before_last ==
    \E j \in 1..(Len(hist) - 1) : kind_at(j) = "bump" /\ hist[j].res = B(TRUE)

\* C19: when a build task fails outside dry-run mode with
\* revert_bump_on_error, context.version, master_version and every version
\* source, in memory and on disk, equal the version loaded at the start;
\* in dry-run mode nothing is reverted and nothing is written.
C19_BuildFailureReverts ==
    build_failed_last =>
        IF args.dry_run
        THEN /\ files = files0
             /\ context.version = vm.master_version
             /\ bumped_before_last => vm.master_version # vm.org_version
        ELSE reverts_last =>
             /\ context.version = files0[1].content
             /\ vm.master_version = files0[1].content
             /\ vm.org_version = files0[1].content
             /\ \A i \in 1..NumSources :
                   /\ vm.parsers[i].version = files0[i].content
                   /\ files[i].content = files0[i].content

\* A bump was written to the files and a failing build reverted it.
C19_Witness ==
    /\ build_failed_last
    /\ ~args.dry_run
    /\ reverts_last
    /\ bumped_before_last
    /\ \A i \in 1..NumSources : files[i].mtime = 2

-----------------------------------------------------------------------------
(* Properties of the CLI flags.                                            *)

\* The task definition is a bump task without an inc option.
bump_without_inc(task_def) ==
    task_def["task"].v = "bump" /\ ~truthy(get(task_def, "inc"))

\* C11: under every combination of CLI flags, a workflow with a bump task
\* that has no inc option, run without --inc, is aborted with a
\* configuration error before any task has run.
C11_MissingIncAbortsBeforeRun ==
    ((\E i \in 1..Len(tasks) : bump_without_inc(tasks[i]))
     /\ ~truthy(args.inc)) =>
        /\ hist = <<>>
        /\ pc \notin {"running", "done"}
        /\ pc = "raised" => exc.type = "ConfigError"

-----------------------------------------------------------------------------
(* Precedence of versions (semver.org, item 11), as semantic_version       *)
(* compares them.                                                          *)

\* The decimal digits of a natural number.
RECURSIVE digits(_)
digits(n) == IF n < 10 THEN <<n>> ELSE Append(digits(n \div 10), n % 10)

\* Lexical order of two sequences of numbers.
RECURSIVE seq_less(_, _)
seq_less(a, b) ==
    IF b = <<>> THEN FALSE
    ELSE IF a = <<>> THEN TRUE
    ELSE IF Head(a) # Head(b) THEN Head(a) < Head(b)
    ELSE seq_less(Tail(a), Tail(b))

\* ASCII order of the prerelease prefixes that occur.
prefix_rank(prefix) ==
    CASE prefix = "" -> 0
      [] prefix = "a" -> 1
      [] prefix = "rc" -> 2

\* a < b for two prerelease identifiers letters + number: an identifier of
\* digits only is numeric, compares by value and is lower than any other;
\* the others compare as ASCII strings (a digit is lower than a letter).
ident_less(a, b) ==
    IF a.prefix = "" /\ b.prefix = "" THEN a.number < b.number
    ELSE IF a.prefix = "" THEN TRUE
    ELSE IF b.prefix = "" THEN FALSE
    ELSE IF a.prefix # b.prefix THEN prefix_rank(a.prefix) < prefix_rank(b.prefix)
    ELSE seq_less(digits(a.number), digits(b.number))

\* a < b for two prerelease tuples of the same major.minor.patch: a
\* version with a prerelease is lower than the one without.
RECURSIVE prerelease_less(_, _)
prerelease_less(a, b) ==
    IF a = <<>> /\ b = <<>> THEN FALSE
    ELSE IF a = <<>> THEN FALSE
    ELSE IF b = <<>> THEN TRUE
    ELSE IF Head(a) # Head(b) THEN ident_less(Head(a), Head(b))
    ELSE IF Tail(a) = <<>> THEN Tail(b) # <<>>
    ELSE IF Tail(b) = <<>> THEN FALSE
    ELSE prerelease_less(Tail(a), Tail(b))

\* a has strictly lower precedence than b.
precedes(a, b) ==
    IF a.major # b.major THEN a.major < b.major
    ELSE IF a.minor # b.minor THEN a.minor < b.minor
    ELSE IF a.patch # b.patch THEN a.patch < b.patch
    ELSE prerelease_less(a.prerelease, b.prerelease)

\* C23: every bump that succeeds returns a version of strictly higher
\* precedence than the version it started from.
C23_BumpIncreasesPrecedence ==
    (call.op = "bump" /\ call.exc = "none") => precedes(v_before, call.ret)

\* C24: set_version(v, write=True) is all-or-nothing: when the write of a
\* source raises, master_version and the version and the file of every
\* source are as they were before the call.
C24_SetVersionAllOrNothing ==
    (call.op = "set_version" /\ call.write /\ call.exc # "none") =>
        /\ vm = call.vm
        /\ files = call.files

-----------------------------------------------------------------------------
(* Properties of the bump task under --inc postrelease.                    *)

\* The task that run() is about to run is a bump task without an `inc`
\* option, --inc postrelease was passed, and the version loaded at the
\* start of the run is a prerelease.
pre_bump_case ==
    /\ pc = "running"
    /\ ok
    /\ idx <= Len(tasks)
    /\ tasks[idx]["task"] = S("bump")
    /\ ~truthy(get(tasks[idx], "inc"))
    /\ args.inc = S("postrelease")
    /\ context.org_version.prerelease # <<>>

\* The loaded version has a tag in the repository.
org_version_tagged ==
    \E t \in git.tags : t.body = version_str(context.org_version)

\* One step of a bump task in the case of C25.
C25_Step ==
    (pre_bump_case /\ hist' # hist) =>
        IF ~org_version_tagged /\ ~args.force_pre_bump
        THEN /\ hist'[Len(hist')].res = SkipTaskResult
             /\ context'.version = context.version
             /\ vm' = vm
             /\ files' = files
             /\ pc' = "running" /\ ok' /\ idx' = idx + 1
        ELSE /\ hist'[Len(hist')].res # SkipTaskResult
             /\ vm'.master_version =
                    v_next(vm.master_version, "postrelease",
                           merged_opts("bump", tasks[idx])["prerelease_prefix"].v)
             /\ context'.version = vm'.master_version

C25_WitnessForced ==
    /\ args.force_pre_bump
    /\ git.tags = {}
    /\ hist # <<>>
    /\ tasks[hist[Len(hist)].idx] = Def("bump", NoOpts)
    /\ vm.org_version.prerelease # <<>>
    /\ vm.master_version # vm.org_version

-----------------------------------------------------------------------------
(* Order of the tasks of a run.                                            *)

\* C29: the tasks are run in the order of the workflow definition, one at
\* a time and each at most once: the n-th task run is the n-th task
\* definition, so the tasks that were run are always a prefix of the list,
\* and the loop is at the task after the last one that let it continue.
C29_RunsInOrderOnce ==
    /\ Len(hist) <= Len(tasks)
    /\ \A n \in 1..Len(hist) : hist[n].idx = n
    /\ \A n \in 1..(Len(hist) - 1) : hist[n].cont
    /\ (pc \in {"running", "done"} /\ ok) => idx = Len(hist) + 1

\* A workflow of three tasks has run to its end.
C29_Witness ==
    /\ pc = "done"
    /\ Len(hist) = 3
    /\ ret = "True"

-----------------------------------------------------------------------------
(* Properties of the tag, commit and push tasks.                           *)

\* The options the n-th task that was run had.
opts_of(n) == merged_opts(kind_at(n), run_opts(tasks[hist[n].idx], args))

\* C26: in dry-run mode the tag, commit and push tasks issue no git
\* command, and after a tag task context.tag_name is the expanded name
\* template.
C26_DryRunIssuesNoGitCommand ==
    args.dry_run =>
        /\ \A n \in 1..Len(hist) :
              kind_at(n) \in {"tag", "commit", "push"} => hist[n].cmds = {}
        /\ (hist # <<>> /\ kind_at(Len(hist)) = "tag") =>
              context.tag_name = format(opts_of(Len(hist))["name"].v, context)

-----------------------------------------------------------------------------
(* The workflow definition during a run.                                   *)

\* C27: no step of the program changes the loaded workflow definition:
\* every task definition of TaskRunner.tasks, with the values of its
\* options, stays as it was loaded.
C27_WorkflowDefinitionUnchanged == [][tasks' = tasks]_vars

-----------------------------------------------------------------------------
(* Properties of the github_release task.                                  *)

\* The last task that was run is a github_release task that created a
\* release and returned True.
released_last ==
    /\ hist # <<>>
    /\ kind_at(Len(hist)) = "github_release"
    /\ hist[Len(hist)].returned
    /\ "create_git_release" \in hist[Len(hist)].cmds

\* C28: a github_release task whose `upload` option lists targets uploads
\* exactly the artifacts of context.artifacts with a listed tag; with
\* `upload` None it uploads every artifact.
C28_UploadsListedTargets ==
    released_last =>
        LET upload == opts_of(Len(hist))["upload"]
        IN  hist[Len(hist)].uploaded =
                IF upload = NoneV THEN context.artifacts
                ELSE context.artifacts \cap set_of(upload)

\* C30: a github_release task creates a release only after an earlier
\* task of the run has set context.tag_name; with context.tag_name unset
\* and without --no-release it returns an error result, creates no release
\* and uploads nothing, and the workflow stops.
C30_ReleaseNeedsTagName ==
    /\ \A n \in 1..Len(hist) :
          "create_git_release" \in hist[n].cmds =>
              \E m \in 1..(n - 1) : kind_at(m) = "tag" /\ hist[m].res = B(TRUE)
    /\ (/\ hist # <<>>
        /\ kind_at(Len(hist)) = "github_release"
        /\ context.tag_name = NoText
        /\ ~args.no_release) =>
            /\ hist[Len(hist)].returned
            /\ status_of(hist[Len(hist)].res) = "error"
            /\ ~hist[Len(hist)].cont
            /\ "create_git_release" \notin hist[Len(hist)].cmds
            /\ hist[Len(hist)].uploaded = {}

-----------------------------------------------------------------------------
(* Properties of run_process_streamed.                                     *)

\* The timeout of the exec task has passed and its subprocess is running.
timed_out_running ==
    /\ stream.mpc # "off"
    /\ stream.timeout # 0
    /\ stream.proc = "running"
    /\ stream.now > start_time + stream.timeout

\* C21: once the timeout of a streamed subprocess has passed while the
\* subprocess is running, the subprocess ends or it is killed and the exec
\* task returns an error result, whether the subprocess writes output or
\* not.
C21_TimeoutKills ==
    timed_out_running ~>
        \/ stream.proc = "exited"
        \/ /\ stream.proc = "killed"
           /\ stream.mpc = "returned"
           /\ status_of(stream.result) = "error"

\* The number of times the line `ln` was passed to on_output.
RECURSIVE times_output(_, _)
times_output(ln, chunks) ==
    IF chunks = <<>> THEN 0
    ELSE Len(SelectSeq(Head(chunks).lines, LAMBDA x : x = ln))
         + times_output(ln, Tail(chunks))

\* C22: when run_process_streamed has returned, every line that is not
\* blank and was read from the subprocess has been passed to on_output
\* exactly once.
C22_EveryLineOutputOnce ==
    stream.mpc = "returned" =>
        \A n \in 1..Len(stream.out) :
            ~stream.out[n].blank =>
                times_output(stream.out[n], stream.output) = 1

-----------------------------------------------------------------------------
(* Properties of TaskRunner._load.                                         *)

\* The document is no mapping, or its file_version is missing or is a
\* value that does not start with yabs#.
no_yabs_marker(d) ==
    \/ d.ty # "dict"
    \/ "file_version" \notin DOMAIN d.items
    \/ d.items["file_version"].ty # "str"
    \/ ~startswith(d.items["file_version"], "yabs#")

\* C31: loading a workflow document that is not a mapping, or whose
\* file_version is missing or is a value of any type that does not start
\* with yabs#, fails with ConfigError, and no task definition has been
\* checked or run.
C31_UnmarkedFileIsConfigError ==
    (pc # "new" /\ no_yabs_marker(doc)) =>
        /\ pc = "raised"
        /\ exc = [type |-> "ConfigError", errors |-> <<>>]
        /\ tasks = <<>>
        /\ hist = <<>>

-----------------------------------------------------------------------------
(* Properties of the pre-flight check.                                     *)

\* The keys of TaskRunner.handler_map, in the order of the dict.
handler_keys ==
    <<"bump", "check", "commit", "exec", "github_release", "push",
      "pypi_release", "tag">>

\* The message is formatted with the list of the known task kinds.
names_known_kinds(msg) ==
    \E k \in 1..Len(msg.args) :
        \/ msg.args[k] = S(join(handler_keys))
        \/ msg.args[k] = L(handler_keys)

\* C32: a task definition whose kind is not in the task registry makes the
\* construction of the TaskRunner fail with a ConfigError that names the
\* kind and the list of the known kinds, and no task is run.
C32_UnknownKindIsConfigError ==
    \A i \in 1..Len(tasks) :
        (pc # "loaded" /\ tasks[i]["task"].v \notin task_class_map) =>
            LET msg == invalid_task_definition(tasks[i]["task"].v)
            IN  /\ pc = "raised"
                /\ exc.type = "ConfigError"
                /\ \E m \in 1..Len(exc.errors) : exc.errors[m] = msg.text
                /\ \E k \in 1..Len(msg.args) : msg.args[k] = tasks[i]["task"]
                /\ names_known_kinds(msg)
                /\ hist = <<>>

\* C33: a task definition that lacks a mandatory option of its kind is
\* rejected with a missing mandatory option error by the pre-flight check:
\* no task is instantiated (no defaults are merged) and no task is run.
C33_MissingMandatoryRejected ==
    \A i \in 1..Len(tasks) :
        LET kind == tasks[i]["task"].v
        IN  (/\ pc \notin {"new", "loaded"}
             /\ kind \in task_class_map
             /\ ~(MANDATORY_OPTS(kind) \subseteq DOMAIN tasks[i])) =>
                /\ pc = "raised"
                /\ exc.type = "ConfigError"
                /\ reports(exc.errors, _check_default_opts(kind, tasks[i]))
                /\ hist = <<>>
                /\ warnings = <<>>

\* The increment a bump task definition asks for: its inc option,
\* otherwise the --inc argument.
effective_inc(task_def) ==
    IF truthy(get(task_def, "inc")) THEN get(task_def, "inc") ELSE args.inc

\* The order major > minor > patch.
inc_rank(inc) ==
    CASE inc = "patch" -> 1
      [] inc = "minor" -> 2
      [] inc = "major" -> 3

\* The task definition is a bump whose increment is above max_increment.
above_ceiling(task_def) ==
    /\ task_def["task"].v = "bump"
    /\ truthy(effective_inc(task_def))
    /\ inc_rank(effective_inc(task_def).v) > inc_rank(config.max_increment)

\* C34: when the increment of a bump task is above max_increment and
\* --force is not passed, the pre-flight check fails with a ConfigError and
\* no task runs; when every bump task has an increment that is at or below
\* max_increment, or --force is passed, the pre-flight check passes.
C34_CeilingEnforcedUnlessForce ==
    pc # "loaded" =>
        /\ ((\E i \in 1..Len(tasks) : above_ceiling(tasks[i])) /\ ~args.force) =>
                /\ pc = "raised"
                /\ exc.type = "ConfigError"
                /\ hist = <<>>
        /\ (\A i \in 1..Len(tasks) :
                tasks[i]["task"].v = "bump" =>
                    /\ truthy(effective_inc(tasks[i]))
                    /\ (~above_ceiling(tasks[i]) \/ args.force)) =>
                (pc = "raised" => hist # <<>>)

-----------------------------------------------------------------------------
(* Properties of the release tasks.                                        *)

ReleaseKinds == {"github_release", "pypi_release", "winget_release"}

\* C35: under --no-release, every github_release, pypi_release and
\* winget_release task that is run issues no command or request, uploads
\* nothing, returns a result whose status is ok or skip, and the workflow
\* goes on to the next task.
C35_NoReleaseSkipsReleaseTasks ==
    args.no_release =>
        \A i \in 1..Len(hist) :
            kind_at(i) \in ReleaseKinds =>
                /\ hist[i].returned
                /\ status_of(hist[i].res) \in {"ok", "skip"}
                /\ hist[i].cmds = {}
                /\ hist[i].uploaded = {}
                /\ hist[i].cont
                /\ idx > hist[i].idx

\* A workflow of the three release tasks has finished under --no-release,
\* without --dry-run.
C35_Witness ==
    /\ args.no_release
    /\ ~args.dry_run
    /\ pc = "done"
    /\ ret = "True"
    /\ Len(hist) = 3
    /\ {kind_at(i) : i \in 1..Len(hist)} = ReleaseKinds

-----------------------------------------------------------------------------
(* Properties of the VersionFileManager as the runner creates it.          *)

\* C36: once the VersionFileManager is constructed, and after every bump
\* and set_version that the tasks make, the version of every source equals
\* master_version, and the first source is the master.
C36_SourcesInSync ==
    vm # NoManager =>
        /\ Len(vm.parsers) = NumSources
        /\ \A i \in 1..Len(vm.parsers) :
              vm.parsers[i].version = vm.master_version

-----------------------------------------------------------------------------
(* Properties of context.errors.                                           *)

\* C37: when TaskRunner.run has returned, context.errors is empty exactly
\* when it returned True; when the run of a task returned an error result,
\* context.errors holds the description of that task followed by the
\* workflow-failed message; and when no task did, it is empty.
C37_ErrorsMatchResult ==
    pc = "done" =>
        /\ (context.errors = <<>>) <=> (ret = "True")
        /\ \A i \in 1..Len(hist) :
              returned_error(i) =>
                  context.errors = <<hist[i].task_str, workflow_failed>>
        /\ (\A i \in 1..Len(hist) : ~returned_error(i)) => context.errors = <<>>

-----------------------------------------------------------------------------
(* Properties of the plugin manager.                                       *)

\* The entry point that find_plugins keeps for a name: the first one.
first_ep(name) ==
    CHOOSE k \in 1..Len(entry_points) :
        /\ entry_points[k].name = name
        /\ \A j \in 1..(k - 1) : entry_points[j].name # name

\* C38: after register_plugins, a plugin whose entry point fails to load
\* is not in the task registry; a plugin that loads and registers a task
\* class is registered with that class whatever the other plugins do; the
\* core task kinds keep their classes; and a call of register_plugins
\* after the first changes nothing.
C38_RegisterPluginsIsolatesFailures ==
    (pm.pmc = "on" /\ pm.plugins_registered) =>
        /\ \A k \in 1..Len(entry_points) :
              LET name == entry_points[k].name
              IN  (name \notin CoreKinds /\ k = first_ep(name)) =>
                    /\ entry_points[k].behaviour \in {"load_raises", "not_callable"}
                          => name \notin DOMAIN pm.task_class_map
                    /\ entry_points[k].behaviour = "task"
                          => /\ name \in DOMAIN pm.task_class_map
                             /\ pm.task_class_map[name] =
                                    [kind |-> "task", name |-> name, ep |-> k]
        /\ \A kind \in CoreKinds : pm.task_class_map[kind] = CoreClass(kind)
        /\ pm.before # [k \in CoreKinds |-> CoreClass(k)] =>
              pm.task_class_map = pm.before
====
